---- MODULE Spec2Model ----
(***************************************************************************)
(* A model of the observable graph engine of domic-observable.            *)
(*                                                                         *)
(* Part I   the Observer / Observable / WritableObservable /               *)
(*          VirtualWritableObservable classes of src/observable.ts         *)
(*          (lines 1-898): values, observers, notification, lazy           *)
(*          activation, pause / resume, tf and p.                          *)
(* Part II  the Change-based Observable / DependantObservable of           *)
(*          src/observable.ts (lines 2516-3490): registration and          *)
(*          unregistration of observer functions.                          *)
(*                                                                         *)
(* Every synchronous call chain of the program (set -> notify ->           *)
(* Observer.call -> refresh -> notify ...) is one evaluation of the        *)
(* recursive operators below, so an action is a whole public operation.    *)
(***************************************************************************)
EXTENDS Integers, Sequences, FiniteSets, TLC

VARIABLES st, pre, op, gh, cst

vars == <<st, pre, op, gh, cst>>

\* Values that set() is called with are the numbers 0..MaxVal.
MaxVal == 1

\* Number of object identities clone() may allocate in one behaviour.
MaxIds == 2

\* Number of independent observer registrations in the Change-based part.
MaxRegs == 3

\* Number of arrays and merged records one behaviour of the array and merge
\* programs may allocate.
MaxAllocs == 3

\* The arrays the calling code passes to set have at most MaxLen elements.
MaxLen == 1

-----------------------------------------------------------------------------
(* Values.  A JavaScript value is a number, undefined, or an object with   *)
(* an identity.  v.t is the type, v.n the number or the identity of the    *)
(* object, v.f the properties of an object.                                *)

Keys == {"a", "b", "c"}

Undef == [t |-> "undef", n |-> 0, f |-> <<>>]

Num(n) == [t |-> "int", n |-> n, f |-> <<>>]

\* An object literal without properties: every key reads undefined.
NoFields == [k \in Keys |-> Undef]

Obj(id, fields) == [t |-> "obj", n |-> id, f |-> fields]

\* The === operator: numbers by value, objects by identity.
Same(x, y) == x.t = y.t /\ x.n = y.n

\* value[key]: a property of an object; a property of a number is undefined.
Prop(v, k) == IF v.t = "obj" THEN v.f[k] ELSE Undef

\* No clone at all: the value itself, which the caller then writes to.
ShallowCloneAlias(v, id) == v

\* clone(value, circular, 1): a new object with the same properties; a
\* primitive is returned as it is.  id is the identity of the new object.
ShallowClone(v, id) ==
  IF v.t = "obj" THEN Obj(id, v.f)
  ELSE IF v.t = "arr" THEN [t |-> "arr", n |-> id, f |-> v.f]
  ELSE v

\* An array with an identity; v.f is the sequence of its elements.
Arr(id, elems) == [t |-> "arr", n |-> id, f |-> elems]

\* A container object used as a value (a property that holds an Observable).
Ref(c) == [t |-> "ref", n |-> 0, f |-> <<c>>]

\* arr[i], from index 0; undefined outside the array.
Index(v, i) ==
  IF v.t = "arr" /\ i + 1 \in 1..Len(v.f) THEN v.f[i + 1] ELSE Undef

\* arr[i] = x on the array with elements elems.  For i = -1 (i is undefined)
\* the assignment sets the property "undefined" and leaves the elements as
\* they are; for i beyond the end the array grows, its holes read undefined.
SetIndex(elems, i, x) ==
  IF i < 0 THEN elems
  ELSE IF i < Len(elems) THEN [elems EXCEPT ![i + 1] = x]
  ELSE elems \o [j \in 1..(i - Len(elems)) |-> Undef] \o <<x>>

\* Array.prototype.splice(start, deleteCount, ...items) on elems.
Splice(elems, start, deleteCount, items) ==
  LET from == IF start > Len(elems) THEN Len(elems) ELSE start
      del  == IF deleteCount < 0 THEN 0
              ELSE IF deleteCount > Len(elems) - from THEN Len(elems) - from
              ELSE deleteCount
  IN SubSeq(elems, 1, from) \o items \o SubSeq(elems, from + del + 1, Len(elems))

\* The content of two values is the same (chai's eql): arrays element by
\* element, other values as ===.
Eql(x, y) ==
  IF x.t = "arr" /\ y.t = "arr"
  THEN /\ Len(x.f) = Len(y.f)
       /\ \A i \in 1..Len(x.f) : x.f[i].t = y.f[i].t /\ x.f[i].n = y.f[i].n
  ELSE x.t = y.t /\ x.n = y.n

-----------------------------------------------------------------------------
(* The containers and observers that the behaviours are about.            *)
(*   S   = o(0)                                                            *)
(*   D1  = S.tf(f),  D2 = S.tf(g)                                          *)
(*   R   = o({a: 1, b: {c: 1}})                                            *)
(*   PA  = R.p('a'), PB = R.p('b'), PBi = R.p('b'), PC = PBi.p('c')        *)
(* PB and PBi are two separately created projections of the same path.     *)
(*                                                                         *)
(* Further programs, each run on its own:                                  *)
(*   PA2 = R.p('a'), a second projection beside PA                         *)
(*   A   = o([1, 0]), I = o(0), W = A.p(I)                                 *)
(*   MA  = o(0), MB = o(0), RO = MB.readonly(),                            *)
(*   M   = o.merge({a: MA, b: MB, c: RO}), Q = M.p('a')                    *)
(*   FA  = o([1, 0]), F = FA.filtered(x => x % 2 === 0)                    *)
(*   LA  = o([1, 0]), L = LA.sliced(1)                                     *)
(*   E   = o(0), with an observer "er" whose callback sets E:               *)
(*         v => { if (v === 0) E.set(1) }                                  *)
(*         and an observer "ex" whose callback removes the observer e1:    *)
(*         () => e1.stopObserving()                                        *)

Containers == {"S", "D1", "D2", "R", "PA", "PB", "PBi", "PC"}

\* Observers created by user code with addObserver(fn): fn records its call.
SpiesOf(c) ==
  CASE c = "S"  -> {"s1", "s2", "s3"}
    [] c = "D1" -> {"d1a", "d1b"}
    [] c = "D2" -> {"d2a"}
    [] c = "R"  -> {"r1", "r2"}
    [] c = "PA" -> {"a1"}
    [] c = "PB" -> {"b1"}
    [] c = "PC" -> {"c1"}
    [] c = "A"  -> {"sa"}
    [] c = "W"  -> {"sw"}
    [] c = "MA" -> {"sma"}
    [] c = "MB" -> {"smb"}
    [] c = "Q"  -> {"sq"}
    [] c = "FA" -> {"sfa"}
    [] c = "F"  -> {"sf"}
    [] c = "LA" -> {"sla"}
    [] c = "L"  -> {"sl"}
    [] c = "SL" -> {"ssl"}
    [] c = "E"  -> {"e1", "er", "ex"}
    [] c = "RO" -> {"sro1", "sro2"}
    [] OTHER    -> {}

Spies == UNION {SpiesOf(c) : c \in Containers}

\* Observers created by obs.observe(this, () => obs.refresh()) in tf and p.
RefreshObs == {"rD1", "rD2", "rPA", "rPB", "rPBi", "rPC"}

\* The Observer each tf / p creates around its getter function.
GetterObs == {"gD1", "gD2", "gPA", "gPB", "gPBi", "gPC"}

AllObs == Spies \cup RefreshObs \cup GetterObs

\* The containers, refresh observers and getter Observers of the further
\* programs.
MoreContainers ==
  {"PA2", "A", "I", "W", "MA", "MB", "RO", "M", "Q", "FA", "F", "LA", "L",
   "SA", "SS", "SL", "E"}

MoreRefreshObs ==
  {"rPA2", "rWA", "rWI", "rMA", "rMB", "rMRO", "rQ", "rF", "rL", "rSLA",
   "rSLS"}

MoreGetterObs == {"gPA2", "gW", "gQ", "gF", "gL", "gSL"}

AllContainers == Containers \cup MoreContainers

AllSpies == UNION {SpiesOf(c) : c \in AllContainers}

AllRefreshObs == RefreshObs \cup MoreRefreshObs

\* How each container was built: o(value), source.tf(fnget[, fnset]) or
\* source.p(key).  get is the Observer around the getter.
Def(c) ==
  CASE c = "D1"  -> [kind |-> "tf", src |-> "S",   get |-> "gD1",  key |-> "a"]
    [] c = "D2"  -> [kind |-> "tf", src |-> "S",   get |-> "gD2",  key |-> "a"]
    [] c = "PA"  -> [kind |-> "p",  src |-> "R",   get |-> "gPA",  key |-> "a"]
    [] c = "PB"  -> [kind |-> "p",  src |-> "R",   get |-> "gPB",  key |-> "b"]
    [] c = "PBi" -> [kind |-> "p",  src |-> "R",   get |-> "gPBi", key |-> "b"]
    [] c = "PC"  -> [kind |-> "p",  src |-> "PBi", get |-> "gPC",  key |-> "c"]
    [] c = "PA2" -> [kind |-> "p",  src |-> "R",   get |-> "gPA2", key |-> "a"]
    [] c = "W"   -> [kind |-> "pk", src |-> "A",   get |-> "gW",   key |-> "I"]
    [] c = "Q"   -> [kind |-> "p",  src |-> "M",   get |-> "gQ",   key |-> "a"]
    [] c = "RO"  -> [kind |-> "readonly", src |-> "MB", get |-> "none",
                     key |-> "a"]
    [] c = "M"   -> [kind |-> "merge", src |-> "MA", get |-> "none",
                     key |-> "a",
                     entries |-> <<[key |-> "a", c |-> "MA", writable |-> TRUE],
                                   [key |-> "b", c |-> "MB", writable |-> TRUE],
                                   [key |-> "c", c |-> "RO", writable |-> FALSE]>>]
    [] c = "F"   -> [kind |-> "filtered", src |-> "FA", get |-> "gF",
                     key |-> "a"]
    [] c = "L"   -> [kind |-> "sliced", src |-> "LA", get |-> "gL",
                     key |-> "a", start |-> 1, end |-> -1]
    [] c = "SL"  -> [kind |-> "slicedo", src |-> "SA", get |-> "gSL",
                     key |-> "SS", start |-> 0, end |-> -1]
    [] OTHER     -> [kind |-> "o",  src |-> c,     get |-> "none", key |-> "a"]

\* Observer.observable: the container an observer is (to be) registered on.
Target(ob) ==
  CASE ob \in SpiesOf("S")  -> "S"
    [] ob \in SpiesOf("D1") -> "D1"
    [] ob \in SpiesOf("D2") -> "D2"
    [] ob \in SpiesOf("R")  -> "R"
    [] ob \in SpiesOf("PA") -> "PA"
    [] ob \in SpiesOf("PB") -> "PB"
    [] ob \in SpiesOf("PC") -> "PC"
    [] ob \in {"rD1", "rD2", "gD1", "gD2"} -> "S"
    [] ob \in {"rPA2", "gPA2"} -> "R"
    [] ob \in {"sa", "rWA", "gW"} -> "A"
    [] ob = "rWI" -> "I"
    [] ob = "sw" -> "W"
    [] ob \in {"sma", "rMA"} -> "MA"
    [] ob \in {"smb", "rMB"} -> "MB"
    [] ob \in {"rMRO", "sro1", "sro2"} -> "RO"
    [] ob \in {"rQ", "gQ"} -> "M"
    [] ob = "sq" -> "Q"
    [] ob \in {"sfa", "rF", "gF"} -> "FA"
    [] ob = "sf" -> "F"
    [] ob \in {"sla", "rL", "gL"} -> "LA"
    [] ob = "sl" -> "L"
    [] ob \in {"rSLA", "gSL"} -> "SA"
    [] ob = "rSLS" -> "SS"
    [] ob = "ssl" -> "SL"
    [] ob \in SpiesOf("E") -> "E"
    [] ob \in {"rPA", "rPB", "rPBi", "gPA", "gPB", "gPBi"} -> "R"
    [] OTHER -> "PBi"

\* Observer.fn of the observers made by observe(): which container they refresh.
Refreshes(ob) ==
  CASE ob = "rD1"  -> "D1"
    [] ob = "rD2"  -> "D2"
    [] ob = "rPA"  -> "PA"
    [] ob = "rPB"  -> "PB"
    [] ob = "rPBi" -> "PBi"
    [] ob = "rPA2" -> "PA2"
    [] ob \in {"rWA", "rWI"} -> "W"
    [] ob \in {"rMA", "rMB", "rMRO"} -> "M"
    [] ob = "rQ"   -> "Q"
    [] ob = "rF"   -> "F"
    [] ob = "rL"   -> "L"
    [] ob \in {"rSLA", "rSLS"} -> "SL"
    [] OTHER       -> "PC"

\* Observable.observed of each container, in the order of the observe() calls.
Observed(c) ==
  CASE c = "D1"  -> <<"rD1">>
    [] c = "D2"  -> <<"rD2">>
    [] c = "PA"  -> <<"rPA">>
    [] c = "PB"  -> <<"rPB">>
    [] c = "PBi" -> <<"rPBi">>
    [] c = "PC"  -> <<"rPC">>
    [] c = "PA2" -> <<"rPA2">>
    [] c = "W"   -> <<"rWA", "rWI">>
    [] c = "M"   -> <<"rMA", "rMB", "rMRO">>
    [] c = "Q"   -> <<"rQ">>
    [] c = "F"   -> <<"rF">>
    [] c = "L"   -> <<"rL">>
    [] c = "SL"  -> <<"rSLA", "rSLS">>
    [] OTHER     -> <<>>

\* The functions given to tf.  D1 = S.tf(f) with
\*   f = (n, o) => o === undefined ? n : n + 2 * o + 10
\* which uses both arguments, and D2 = S.tf(g) with g = n => n + 1.
UserFn(c, new, old) ==
  IF c = "D1"
  THEN (IF new.t = "int" /\ old.t = "int" THEN Num(new.n + 2 * old.n + 10)
        ELSE IF new.t = "int" THEN Num(new.n) ELSE Undef)
  ELSE (IF new.t = "int" THEN Num(new.n + 1) ELSE Undef)

RootValue == Obj(0, [NoFields EXCEPT !["a"] = Num(1),
                     !["b"] = Obj(1, [NoFields EXCEPT !["c"] = Num(1)])])

\* The first identity clone() hands out: RootValue uses 0 and 1.
FirstId == 2

-----------------------------------------------------------------------------
(* The state of Part I (the variable st).                                  *)

InitSt ==
  [ value         |-> [c \in Containers |->
                         IF c = "S" THEN Num(0)
                         ELSE IF c = "R" THEN RootValue ELSE Undef],
    observers     |-> [c \in Containers |-> <<>>],
    paused_notify |-> [c \in Containers |-> -1],
    old_value     |-> [ob \in AllObs |-> Undef],
    last_value    |-> [ob \in AllObs |-> Undef],
    last_result   |-> [ob \in AllObs |-> Undef],
    is_paused     |-> [ob \in AllObs |-> FALSE],
    memo          |-> [ob \in GetterObs |->
                         [last_value |-> Undef, last_value_bis |-> Undef,
                          last_result |-> Undef]],
    log           |-> <<>>,
    nextId        |-> FirstId,
    thrown        |-> FALSE ]

\* memoize(fn)(arg, old) for the getter Observer g of tf container c.
Memoize(s, g, c, arg, old) ==
  LET m == s.memo[g] IN
  IF Same(arg, m.last_value) /\ Same(old, m.last_value_bis)
  THEN [s |-> s, r |-> m.last_result]
  ELSE LET res == UserFn(c, arg, old) IN
       [s |-> [s EXCEPT !.memo[g] = [last_value |-> arg, last_value_bis |-> old,
                                     last_result |-> res]],
        r |-> res]

\* The predicate given to filtered: x => x % 2 === 0.
Pred(x) == x.t = "int" /\ x.n % 2 = 0

\* The indexes, from 0, of the elements that satisfy Pred, in order.
AliveIndexes(elems) ==
  SelectSeq([i \in 1..Len(elems) |-> i - 1], LAMBDA i : Pred(elems[i + 1]))

\* o.get(start) of the sliced container c: the number given to sliced, or
\* the value of the container given to it.
SliceStart(s, c) ==
  IF Def(c).kind = "slicedo" THEN s.value[Def(c).key].n ELSE Def(c).start

\* The functions filtered and sliced give to tf, applied to the array arr:
\* filtered stores the indexes it kept in its variable indexes; both return
\* a new array.
ArrFn(s, c, arr) ==
  IF Def(c).kind = "filtered"
  THEN LET idx == AliveIndexes(arr.f) IN
       [s |-> [s EXCEPT !.indexes[c] = idx, !.nextId = @ + 1],
        r |-> Arr(s.nextId, [j \in 1..Len(idx) |-> arr.f[idx[j] + 1]])]
  ELSE LET last == IF Def(c).end = -1 \/ Def(c).end > Len(arr.f)
                   THEN Len(arr.f) ELSE Def(c).end
       IN [s |-> [s EXCEPT !.nextId = @ + 1],
           r |-> Arr(s.nextId, SubSeq(arr.f, SliceStart(s, c) + 1, last))]

\* memoize(fn)(arg, old) for the getter Observer g of the filtered or
\* sliced container c.
MemoizeArr(s, g, c, arg, old) ==
  LET m == s.memo[g] IN
  IF Same(arg, m.last_value) /\ Same(old, m.last_value_bis)
  THEN [s |-> s, r |-> m.last_result]
  ELSE LET res == ArrFn(s, c, arg) IN
       [s |-> [res.s EXCEPT !.memo[g] = [last_value |-> arg,
                                         last_value_bis |-> old,
                                         last_result |-> res.r]],
        r |-> res.r]

\* Observer.fn of the Observer g that tf or p of container c made, called
\* with (v, old).
GetterFn(s, g, c, v, old) ==
  CASE Def(c).kind = "tf" -> Memoize(s, g, c, v, old)
    [] Def(c).kind = "p"  -> [s |-> s, r |-> Prop(v, Def(c).key)]
    [] Def(c).kind = "pk" ->
         [s |-> s, r |-> Index(v, s.value[Def(c).key].n)]
    [] OTHER -> MemoizeArr(s, g, c, v, old)

RECURSIVE PlaceAll(_, _, _, _)
\* for (i = 0; i < len; i++) local_array[indexes[i]] = transformed_array[i]
PlaceAll(elems, indexes, w, i) ==
  IF i > Len(w) THEN elems
  ELSE PlaceAll(SetIndex(elems, IF i <= Len(indexes) THEN indexes[i] ELSE -1,
                         w[i]),
                indexes, w, i + 1)

\* The container whose getter Observer is g.
OwnerOf(g) == CHOOSE c \in AllContainers : Def(c).get = g

\* Observable.removeObserver, line 263: this.observers.filter(ob => ob !== ob).
\* The parameter of the arrow function hides the argument ob, so every
\* element is compared with itself.
FilterObservers(list, ob) == SelectSeq(list, LAMBDA x : x # x)

\* The order in which notify walks this.observers (for .. of).
NotifyOrderReversed(list) == [i \in 1..Len(list) |-> list[Len(list) + 1 - i]]

NotifyOrder(list) == list

RECURSIVE Notify(_, _), CallAll(_, _, _, _), ObserverCall(_, _, _),
          Refresh(_, _), Get(_, _), SetC(_, _, _), FnGet(_, _),
          AddObserver(_, _, _), StartAll(_, _, _),
          RemoveObserver(_, _, _), StopAll(_, _, _),
          MergeGet(_, _, _, _), MergeSet(_, _, _, _),
          FilteredSet(_, _, _, _), SlicedSet(_, _, _, _), Run(_)

\* The operations below call one another through Run:
\* Run(<<"Get", s, c>>) is the call Get(s, c).

\* The observers whose callback sets their own container:
\* v => { if (v === 0) E.set(1) }.
Setters == {"er"}

\* The observers whose callback removes another observer of their
\* container, Victim(ob): () => e1.stopObserving().
Removers == {"ex"}

Victim(ob) == "e1"

\* Observer.call(new_value): the new state and the value returned.
ObserverCall(s, ob, v) ==
  IF s.is_paused[ob]
  THEN [s |-> [s EXCEPT !.last_value[ob] = v], r |-> s.last_result[ob]]
  ELSE LET old == s.old_value[ob]
           s1  == [s EXCEPT !.old_value[ob] = v]
           out == IF ob \in AllSpies
                  THEN LET s2 == [s1 EXCEPT !.log = Append(@,
                                    [ob |-> ob, new |-> v, old |-> old,
                                     seen |-> s1.value[Target(ob)]])]
                       IN [s |-> IF ob \in Setters /\ Same(v, Num(0))
                                 THEN Run(<<"SetC", s2, Target(ob), Num(1)>>)
                                 ELSE IF ob \in Removers
                                 THEN Run(<<"RemoveObserver", s2, Target(ob),
                                            Victim(ob)>>)
                                 ELSE s2,
                           r |-> Undef]
                  ELSE IF ob \in AllRefreshObs
                  THEN [s |-> Run(<<"Refresh", s1, Refreshes(ob)>>), r |-> Undef]
                  ELSE GetterFn(s1, ob, OwnerOf(ob), v, old)
       IN [s |-> [out.s EXCEPT !.last_result[ob] = out.r], r |-> out.r]

\* Observable.notify().
Notify(s, c) ==
  IF s.paused_notify[c] > -1
  THEN [s EXCEPT !.paused_notify[c] = 1]
  ELSE Run(<<"CallAll", s, c, NotifyOrder(s.observers[c]), 1>>)

CallAll(s, c, obs, i) ==
  IF i > Len(obs) THEN s
  ELSE CallAll(Run(<<"ObserverCall", s, obs[i], s.value[c]>>).s,
               c, obs, i + 1)

\* The fnget closure of tf and p: fn.call(this.get()) on the source; _get
\* of merge; () => this.get() of readonly.
FnGet(s, c) ==
  IF Def(c).kind = "merge" THEN Run(<<"MergeGet", s, c, 1, NoFields>>)
  ELSE IF Def(c).kind = "readonly" THEN Run(<<"Get", s, Def(c).src>>)
  ELSE LET a == Run(<<"Get", s, Def(c).src>>)
       IN Run(<<"ObserverCall", a.s, Def(c).get, a.r>>)

\* _get of o.merge, from entry i on: res[name] = o.get(ro_obj[name]), and
\* o.get returns arg.get() for a WritableObservable and arg itself otherwise.
MergeGet(s, c, i, fields) ==
  IF i > Len(Def(c).entries)
  THEN [s |-> [s EXCEPT !.nextId = @ + 1], r |-> Obj(s.nextId, fields)]
  ELSE LET e == Def(c).entries[i]
           a == IF e.writable THEN Run(<<"Get", s, e.c>>)
                ELSE [s |-> s, r |-> Ref(e.c)]
       IN MergeGet(a.s, c, i + 1, [fields EXCEPT ![e.key] = a.r])

\* _set of o.merge, from entry i on: ob.set(_obj[name]) for every property
\* of _obj whose entry is a WritableObservable.
MergeSet(s, c, obj, i) ==
  IF i > Len(Def(c).entries) THEN s
  ELSE LET e == Def(c).entries[i]
       IN MergeSet(IF e.writable /\ obj.t = "obj" /\ obj.f[e.key].t # "undef"
                   THEN Run(<<"SetC", s, e.c, obj.f[e.key]>>) ELSE s,
                   c, obj, i + 1)

\* The setter filtered gives to tf, called with (w, old).
FilteredSet(s, c, w, old) ==
  IF old.t = "arr" /\ Len(w.f) # Len(old.f)
  THEN [s EXCEPT !.thrown = TRUE]
  ELSE LET a     == Run(<<"Get", s, Def(c).src>>)
           local == ShallowClone(a.r, a.s.nextId)
       IN Run(<<"SetC", [a.s EXCEPT !.nextId = @ + 1], Def(c).src,
                Arr(local.n, PlaceAll(local.f, a.s.indexes[c], w.f, 1))>>)

\* The setter sliced gives to tf, called with (w, old).
SlicedSet(s, c, w, old) ==
  LET a     == Run(<<"Get", s, Def(c).src>>)
      val   == ShallowClone(a.r, a.s.nextId)
      start == SliceStart(s, c)
  IN IF Def(c).end < 1 /\ old.t # "arr"
     THEN [s EXCEPT !.thrown = TRUE]
     ELSE Run(<<"SetC", [a.s EXCEPT !.nextId = @ + 1], Def(c).src,
                Arr(val.n, Splice(val.f, start,
                                  IF Def(c).end < 1 THEN Len(old.f)
                                  ELSE Def(c).end - start,
                                  w.f))>>)

\* VirtualWritableObservable.refresh().
Refresh(s, c) ==
  LET g   == Run(<<"FnGet", s, c>>)
      old == g.s.value[c]
      s1  == [g.s EXCEPT !.value[c] = g.r]
  IN IF ~Same(old, g.r) THEN Run(<<"Notify", s1, c>>) ELSE s1

\* Observable.get() and VirtualWritableObservable.get().
Get(s, c) ==
  IF Def(c).kind = "o" THEN [s |-> s, r |-> s.value[c]]
  ELSE LET s1 == IF Len(s.observers[c]) = 0
                 THEN Run(<<"Refresh", s, c>>) ELSE s
       IN [s |-> s1, r |-> s1.value[c]]

\* WritableObservable.set(value) applied to a container of any class: what
\* set would do if VirtualWritableObservable did not override it.
SetCAsWritable(s, c, v) == Run(<<"Notify", [s EXCEPT !.value[c] = v], c>>)

\* WritableObservable.set(value) and VirtualWritableObservable.set(value).
\* tf was given no fnset, so fnset!(value, old) throws; the setter of p
\* clones the source, assigns the key and sets the source.
SetC(s, c, v) ==
  IF Def(c).kind = "o"
  THEN Run(<<"Notify", [s EXCEPT !.value[c] = v], c>>)
  ELSE IF Def(c).kind = "tf" THEN [s EXCEPT !.thrown = TRUE]
  ELSE IF Def(c).kind = "merge" THEN Run(<<"MergeSet", s, c, v, 1>>)
  ELSE IF Def(c).kind = "filtered"
  THEN Run(<<"FilteredSet", s, c, v, s.value[c]>>)
  ELSE IF Def(c).kind \in {"sliced", "slicedo"}
  THEN Run(<<"SlicedSet", s, c, v, s.value[c]>>)
  ELSE IF Def(c).kind = "pk"
  THEN LET a   == Run(<<"Get", s, Def(c).src>>)
           arr == ShallowClone(a.r, a.s.nextId)
           new == IF arr.t = "arr"
                  THEN Arr(arr.n, SetIndex(arr.f, a.s.value[Def(c).key].n, v))
                  ELSE arr
       IN SetC([a.s EXCEPT !.nextId = @ + 1], Def(c).src, new)
  ELSE LET a   == Run(<<"Get", s, Def(c).src>>)
           arr == ShallowClone(a.r, a.s.nextId)
           new == IF arr.t = "obj"
                  THEN Obj(arr.n, [arr.f EXCEPT ![Def(c).key] = v]) ELSE arr
       IN SetC([a.s EXCEPT !.nextId = @ + 1], Def(c).src, new)

\* An addObserver that leaves ob.old_value as it was.
AddObserverKeepOld(s, c, ob) ==
  LET g  == Run(<<"Get", s, c>>)
      s1 == [g.s EXCEPT !.observers[c] = Append(@, ob)]
  IN IF Len(s1.observers[c]) = 1
     THEN Run(<<"StartAll", s1, Observed(c), 1>>) ELSE s1

\* Observable.addObserver(ob); observer.startObserving() for each observed.
AddObserver(s, c, ob) ==
  LET g  == Run(<<"Get", s, c>>)
      s1 == [g.s EXCEPT !.old_value[ob] = g.r, !.observers[c] = Append(@, ob)]
  IN IF Len(s1.observers[c]) = 1
     THEN Run(<<"StartAll", s1, Observed(c), 1>>) ELSE s1

StartAll(s, obs, i) ==
  IF i > Len(obs) THEN s
  ELSE StartAll(Run(<<"AddObserver", s, Target(obs[i]), obs[i]>>),
                obs, i + 1)

\* Observable.removeObserver(ob); o.stopObserving() for each observed.
RemoveObserver(s, c, ob) ==
  LET s1 == [s EXCEPT !.observers[c] = FilterObservers(@, ob)]
  IN IF Len(s1.observers[c]) = 0
     THEN Run(<<"StopAll", s1, Observed(c), 1>>) ELSE s1

StopAll(s, obs, i) ==
  IF i > Len(obs) THEN s
  ELSE StopAll(Run(<<"RemoveObserver", s, Target(obs[i]), obs[i]>>),
               obs, i + 1)

\* The keys of an object literal, in the order for .. in walks them.
KeySeq == <<"a", "b", "c">>

RECURSIVE AssignFn(_, _, _), AssignKeys(_, _, _, _)

\* The loop of assign (lines 156-158) over the keys of the partial from
\* position i on: cloned[name] = assign(cloned[name], partial[name]).
\* A key that reads undefined in the partial is not in the literal.
AssignKeys(cloned, partial, i, id) ==
  IF i > Len(KeySeq) THEN [r |-> cloned, id |-> id]
  ELSE LET name == KeySeq[i]
       IN IF partial.f[name].t = "undef"
          THEN AssignKeys(cloned, partial, i + 1, id)
          ELSE LET sub == AssignFn(cloned.f[name], partial.f[name], id)
               IN AssignKeys([cloned EXCEPT !.f[name] = sub.r], partial,
                             i + 1, sub.id)

\* assign(value, partial) (lines 149-164), value being an object wherever
\* the partial is one; id is the next identity clone() hands out.
AssignFn(value, partial, id) ==
  IF partial.t # "obj" THEN [r |-> partial, id |-> id]
  ELSE AssignKeys(ShallowClone(value, id), partial, 1, id + 1)

\* WritableObservable.assign(partial) (lines 574-576).
AssignC(s, c, partial) ==
  LET a   == Run(<<"Get", s, c>>)
      res == AssignFn(a.r, partial, a.s.nextId)
  IN Run(<<"SetC", [a.s EXCEPT !.nextId = res.id], c, res.r>>)

\* What push, pop, shift and unshift (lines 673-699) do to the elements of
\* the copy.
ArrayEdit(name, elems, x) ==
  CASE name = "push" -> Append(elems, x)
    [] name = "pop" -> SubSeq(elems, 1, Len(elems) - 1)
    [] name = "shift" -> SubSeq(elems, 2, Len(elems))
    [] OTHER -> <<x>> \o elems

\* WritableObservable.push / pop / shift / unshift (lines 673-699) on a
\* container that holds an array.
ArrayOp(s, c, name, x) ==
  LET a    == Run(<<"Get", s, c>>)
      copy == ShallowClone(a.r, a.s.nextId)
  IN Run(<<"SetC", [a.s EXCEPT !.nextId = @ + 1], c,
           Arr(copy.n, ArrayEdit(name, copy.f, x))>>)

\* The call m[1](m[2], ...) of one operation by another.
Run(m) ==
  CASE m[1] = "ObserverCall"   -> ObserverCall(m[2], m[3], m[4])
    [] m[1] = "Notify"         -> Notify(m[2], m[3])
    [] m[1] = "CallAll"        -> CallAll(m[2], m[3], m[4], m[5])
    [] m[1] = "FnGet"          -> FnGet(m[2], m[3])
    [] m[1] = "MergeGet"       -> MergeGet(m[2], m[3], m[4], m[5])
    [] m[1] = "MergeSet"       -> MergeSet(m[2], m[3], m[4], m[5])
    [] m[1] = "FilteredSet"    -> FilteredSet(m[2], m[3], m[4], m[5])
    [] m[1] = "SlicedSet"      -> SlicedSet(m[2], m[3], m[4], m[5])
    [] m[1] = "Refresh"        -> Refresh(m[2], m[3])
    [] m[1] = "Get"            -> Get(m[2], m[3])
    [] m[1] = "SetC"           -> SetC(m[2], m[3], m[4])
    [] m[1] = "AddObserver"    -> AddObserver(m[2], m[3], m[4])
    [] m[1] = "StartAll"       -> StartAll(m[2], m[3], m[4])
    [] m[1] = "RemoveObserver" -> RemoveObserver(m[2], m[3], m[4])
    [] m[1] = "StopAll"        -> StopAll(m[2], m[3], m[4])
    [] m[1] = "AssignC"        -> AssignC(m[2], m[3], m[4])
    [] m[1] = "ArrayOp"        -> ArrayOp(m[2], m[3], m[4], m[5])

\* Observable.pause().
PauseC(s, c) ==
  IF s.paused_notify[c] = -1 THEN [s EXCEPT !.paused_notify[c] = 0] ELSE s

\* A resume() that notifies whether or not a notification is pending.
ResumeCAlways(s, c) == Notify([s EXCEPT !.paused_notify[c] = -1], c)

\* Observable.resume().
ResumeC(s, c) ==
  LET frozen == s.paused_notify[c]
      s1     == [s EXCEPT !.paused_notify[c] = -1]
  IN IF frozen > 0 THEN Notify(s1, c) ELSE s1

\* Observer.pause().
PauseOb(s, ob) == [s EXCEPT !.is_paused[ob] = TRUE]

\* Observer.resume().
ResumeOb(s, ob) ==
  LET val == s.last_value[ob]
      s1  == [s EXCEPT !.last_value[ob] = Undef, !.is_paused[ob] = FALSE]
  IN ObserverCall(s1, ob, val).s

-----------------------------------------------------------------------------
(* Part II.  The Change-based Observable and DependantObservable.          *)
(* U is a plain Observable holding a number and T = U.tf(Transform) a      *)
(* TransformObservable.  An observer function is [w, k]: the k-th function *)
(* of the calling code as it was passed ("plain"), what debounce() returns *)
(* for it, a new function ("debounced"), or the observer T registers on U  *)
(* ("internal").                                                           *)

ChgContainers == {"U", "T"}

\* The options of addObserver that are used one at a time.
Options == {"none", "debounce", "throttle", "updatesOnly"}

Plain(k) == [w |-> "plain", k |-> k]

\* The arrow function of TransformObservable._setupUnregisterFn.
Internal == [w |-> "internal", k |-> 0]

\* debounce returns a new function that delays the calls of fn.
Debounce(fn) == [w |-> "debounced", k |-> fn.k]

\* throttle returns its argument.
Throttle(fn) == fn

\* The transformation of T.
Transform(n) == n + 1

\* No timer of a debounced function is pending.
NoTimeout == -1

NoHandle == [c |-> "none", fn |-> Internal]

\* value, observers, observers_count and unregister are the fields
\* _value, _observers[ALL_PROPERTIES], _observers_count and _unregister;
\* timeout[k] is the argument of the pending timer of the debounced k-th
\* function, handles[k] the closure addObserver returned for it, calls the
\* calls of the functions of the calling code during the last operation,
\* registered the functions added and not unregistered by the calling code
\* and last the last operation.
InitCst ==
  [ value           |-> [c \in ChgContainers |->
                           IF c = "U" THEN 0 ELSE Transform(0)],
    observers       |-> [c \in ChgContainers |-> <<>>],
    observers_count |-> [c \in ChgContainers |-> 0],
    unregister      |-> FALSE,
    timeout         |-> [k \in 1..MaxRegs |-> NoTimeout],
    handles         |-> [k \in 1..MaxRegs |-> NoHandle],
    calls           |-> <<>>,
    registered      |-> {},
    last            |-> "init" ]

RECURSIVE ChgCall(_, _, _), ChgNotify(_, _, _), ChgCallAll(_, _, _, _)

\* A call fn(v, changes) of an observer function.
ChgCall(s, fn, v) ==
  IF fn.w = "internal"
  THEN LET old == s.value["T"]
           s1  == [s EXCEPT !.value["T"] = Transform(s.value["U"])]
       IN IF old # s1.value["T"] THEN ChgNotify(s1, "T", s1.value["T"])
          ELSE s1
  ELSE IF fn.w = "debounced"
  THEN [s EXCEPT !.timeout[fn.k] = v]
  ELSE [s EXCEPT !.calls = Append(@, [k |-> fn.k, v |-> v])]

\* notify with a change of the whole value and no pause.
ChgNotify(s, c, v) == ChgCallAll(s, s.observers[c], v, 1)

ChgCallAll(s, obs, v, i) ==
  IF i > Len(obs) THEN s
  ELSE ChgCallAll(ChgCall(s, obs[i], v), obs, v, i + 1)

\* Observable.set(value)
ChgSetValue(s, v) ==
  LET changed == s.value["U"] # v
      s1      == [s EXCEPT !.value["U"] = v]
  IN IF changed THEN ChgNotify(s1, "U", v) ELSE s1

\* Observable.addObserver: the state after it and the function its
\* returned closure holds.
ChgAddObserver(s, c, fn, opt) ==
  LET s1  == [s EXCEPT !.observers_count[c] = @ + 1,
                       !.observers[c] = Append(@, fn)]
      fn1 == IF opt = "debounce" THEN Debounce(fn) ELSE fn
      fn2 == IF opt = "throttle" THEN Throttle(fn1) ELSE fn1
      s2  == IF opt # "updatesOnly" THEN ChgCall(s1, fn2, s1.value[c])
             ELSE s1
  IN [s |-> s2, fn |-> fn2]

SetupUnregisterFn(s) ==
  [ChgAddObserver(s, "U", Internal, "none").s EXCEPT !.unregister = TRUE]

\* DependantObservable.addObserver for T, Observable.addObserver for U.
DepAddObserver(s, c, fn, opt) ==
  LET s0 == IF c = "T" /\ s.observers_count["T"] = 0
            THEN SetupUnregisterFn(s) ELSE s
  IN ChgAddObserver(s0, c, fn, opt)

\* Array.indexOf, from 1, and 0 when fn is not in the list.
IndexOf(list, fn) ==
  IF \E i \in 1..Len(list) : list[i] = fn
  THEN CHOOSE i \in 1..Len(list) :
         list[i] = fn /\ \A j \in 1..(i - 1) : list[j] # fn
  ELSE 0

\* Observable.removeObserver
ChgRemoveObserver(s, c, fn) ==
  LET index == IndexOf(s.observers[c], fn)
  IN IF index > 0
     THEN [s EXCEPT !.observers[c] =
                       SubSeq(@, 1, index - 1) \o SubSeq(@, index + 1, Len(@)),
                    !.observers_count[c] = @ - 1]
     ELSE s

\* DependantObservable.removeObserver for T, Observable.removeObserver for U.
DepRemoveObserver(s, c, fn) ==
  LET s1 == ChgRemoveObserver(s, c, fn)
  IN IF c = "T" /\ s1.observers_count["T"] = 0 /\ s1.unregister
     THEN [ChgRemoveObserver(s1, "U", Internal) EXCEPT !.unregister = FALSE]
     ELSE s1

-----------------------------------------------------------------------------
(* Actions of Part I.  st is the state of the program, pre what PreOf      *)
(* keeps of it before the last operation, op the last operation, and gh    *)
(* what the                                                                *)
(* calling code knows: which observers it has registered and not removed   *)
(* (reg, in the order of their addObserver calls in addOrder), the value   *)
(* the callback of an observer it pauses was last called with (delivered), *)
(* the value of S before its pause() (beforePause) and the observers       *)
(* registered from before that pause() until now (atPause), whether        *)
(* set() was called on the container of an observer since its pause()      *)
(* (obSets) and the value of a container before its last set() (prev).     *)

\* The observers whose pause() and resume() the calling code uses.
Pausable == {"s1"}

InitGh ==
  [ reg         |-> {},
    addOrder    |-> <<>>,
    delivered   |-> [ob \in Pausable |-> Undef],
    beforePause |-> [c \in Containers |-> Undef],
    atPause     |-> {},
    obSets      |-> [ob \in Pausable |-> FALSE],
    prev        |-> [c \in Containers |-> Undef] ]

NoOp == [name |-> "init", c |-> "S", ob |-> "none", v |-> Undef]

Begin(s) == [s EXCEPT !.log = <<>>, !.thrown = FALSE]

\* The containers made with o(value).
Roots == {"S", "R", "A", "I", "MA", "MB", "FA", "LA", "SA", "SS", "E"}

\* What pre keeps of the state before an operation: the values of the roots
\* of the program, the pause counters and whether the observers of Pausable
\* are paused.
PreOf(s) ==
  [ value         |-> [c \in Roots \cap DOMAIN s.value |-> s.value[c]],
    paused_notify |-> s.paused_notify,
    is_paused     |-> [ob \in Pausable \cap DOMAIN s.is_paused |->
                         s.is_paused[ob]] ]

RECURSIVE Deliver(_, _, _)
\* delivered after the callback calls of log, from position i on.
Deliver(d, log, i) ==
  IF i > Len(log) THEN d
  ELSE Deliver(IF log[i].ob \in Pausable
               THEN [d EXCEPT ![log[i].ob] = log[i].new] ELSE d, log, i + 1)

\* c.set(v)
DoSet(c, v) ==
  /\ op' = [name |-> "set", c |-> c, ob |-> "none", v |-> v]
  /\ pre' = PreOf(st)
  /\ st' = Run(<<"SetC", Begin(st), c, v>>)
  /\ gh' = [gh EXCEPT !.prev[c] = st.value[c],
                      !.obSets = [ob \in Pausable |->
                                    IF Target(ob) = c /\ st.is_paused[ob]
                                       /\ ob \in gh.reg
                                    THEN TRUE ELSE @[ob]],
                      !.delivered = Deliver(@, st'.log, 1)]
  /\ UNCHANGED cst

\* c.get()
DoGet(c) ==
  /\ op' = [name |-> "get", c |-> c, ob |-> "none",
            v |-> Run(<<"Get", Begin(st), c>>).r]
  /\ pre' = PreOf(st)
  /\ st' = Run(<<"Get", Begin(st), c>>).s
  /\ gh' = [gh EXCEPT !.delivered = Deliver(@, st'.log, 1)]
  /\ UNCHANGED cst

\* ob = c.addObserver(fn), or ob.startObserving() of an observer removed before
DoAdd(ob) ==
  /\ ob \notin gh.reg
  /\ op' = [name |-> "add", c |-> Target(ob), ob |-> ob, v |-> Undef]
  /\ pre' = PreOf(st)
  /\ st' = Run(<<"AddObserver", Begin(st), Target(ob), ob>>)
  /\ gh' = [gh EXCEPT !.reg = @ \cup {ob},
                      !.addOrder = Append(@, ob),
                      !.delivered = IF ob \in Pausable
                                    THEN [Deliver(@, st'.log, 1) EXCEPT
                                            ![ob] = st'.value[Target(ob)]]
                                    ELSE Deliver(@, st'.log, 1)]
  /\ UNCHANGED cst

\* c.removeObserver(ob), or ob.stopObserving()
DoRemove(ob) ==
  /\ ob \in gh.reg
  /\ op' = [name |-> "remove", c |-> Target(ob), ob |-> ob, v |-> Undef]
  /\ pre' = PreOf(st)
  /\ st' = Run(<<"RemoveObserver", Begin(st), Target(ob), ob>>)
  /\ gh' = [gh EXCEPT !.reg = @ \ {ob},
                      !.atPause = @ \ {ob},
                      !.obSets = [x \in Pausable |->
                                    IF x = ob THEN FALSE ELSE @[x]],
                      !.addOrder = SelectSeq(@, LAMBDA x : x # ob),
                      !.delivered = Deliver(@, st'.log, 1)]
  /\ UNCHANGED cst

\* c.pause()
DoPause(c) ==
  /\ op' = [name |-> "pause", c |-> c, ob |-> "none", v |-> Undef]
  /\ pre' = PreOf(st)
  /\ st' = PauseC(Begin(st), c)
  /\ gh' = [gh EXCEPT !.beforePause[c] =
                        IF st.paused_notify[c] = -1 THEN st.value[c] ELSE @,
                      !.atPause =
                        IF st.paused_notify[c] = -1 THEN gh.reg ELSE @]
  /\ UNCHANGED cst

\* c.resume()
DoResume(c) ==
  /\ op' = [name |-> "resume", c |-> c, ob |-> "none", v |-> Undef]
  /\ pre' = PreOf(st)
  /\ st' = ResumeC(Begin(st), c)
  /\ gh' = [gh EXCEPT !.delivered = Deliver(@, st'.log, 1)]
  /\ UNCHANGED cst

\* ob.pause()
DoObPause(ob) ==
  /\ ob \in gh.reg
  /\ op' = [name |-> "obpause", c |-> Target(ob), ob |-> ob, v |-> Undef]
  /\ pre' = PreOf(st)
  /\ st' = PauseOb(Begin(st), ob)
  /\ gh' = [gh EXCEPT !.obSets[ob] = IF st.is_paused[ob] THEN @ ELSE FALSE]
  /\ UNCHANGED cst

\* ob.resume()
DoObResume(ob) ==
  /\ ob \in gh.reg
  /\ op' = [name |-> "obresume", c |-> Target(ob), ob |-> ob,
            v |-> gh.delivered[ob]]
  /\ pre' = PreOf(st)
  /\ st' = ResumeOb(Begin(st), ob)
  /\ gh' = [gh EXCEPT !.delivered = Deliver(@, st'.log, 1)]
  /\ UNCHANGED cst

\* The array every array program starts with: o([1, 0]), identity 0.
ArrValue == Arr(0, <<Num(1), Num(0)>>)

\* The value o(...) was called with for each root.
RootInit(c) ==
  CASE c = "S" -> Num(0)
    [] c = "R" -> RootValue
    [] c \in {"A", "FA", "LA", "SA"} -> ArrValue
    [] OTHER -> Num(0)

\* The state after the construction of the program with containers cs and
\* observers obs: a derived container holds undefined until its first
\* refresh.
InitStOf(cs, obs) ==
  [ value         |-> [c \in cs |->
                         IF Def(c).kind = "o" THEN RootInit(c) ELSE Undef],
    observers     |-> [c \in cs |-> <<>>],
    paused_notify |-> [c \in cs |-> -1],
    old_value     |-> [ob \in obs |-> Undef],
    last_value    |-> [ob \in obs |-> Undef],
    last_result   |-> [ob \in obs |-> Undef],
    is_paused     |-> [ob \in obs |-> FALSE],
    memo          |-> [ob \in obs \cap (GetterObs \cup MoreGetterObs) |->
                         [last_value |-> Undef, last_value_bis |-> Undef,
                          last_result |-> Undef]],
    indexes       |-> [c \in cs \cap {"F"} |-> <<>>],
    log           |-> <<>>,
    nextId        |-> FirstId,
    thrown        |-> FALSE ]

InitGhOf(cs) ==
  [ reg         |-> {},
    addOrder    |-> <<>>,
    delivered   |-> [ob \in Pausable |-> Undef],
    beforePause |-> [c \in cs |-> Undef],
    atPause     |-> {},
    obSets      |-> [ob \in Pausable |-> FALSE],
    prev        |-> [c \in cs |-> Undef] ]

\* The program with containers cs and observers obs, after construction.
InitOf(cs, obs) ==
  /\ st = InitStOf(cs, obs)
  /\ pre = PreOf(InitStOf(cs, obs))
  /\ op = NoOp
  /\ gh = InitGhOf(cs)
  /\ cst = InitCst

\* The allocations of a behaviour are bounded.
CanAlloc == st.nextId < FirstId + MaxAllocs

\* The element sequences of the arrays the calling code passes to set.
UserSeqs == UNION {[1..n -> {Num(v) : v \in 0..MaxVal}] : n \in 0..MaxLen}

RECURSIVE UserCode(_, _)
\* A number that tells the sequences of UserSeqs apart.
UserCode(elems, i) ==
  IF i > Len(elems) THEN 0
  ELSE elems[i].n + 1 + (MaxVal + 2) * UserCode(elems, i + 1)

\* The array literal with the elements elems: the calling code holds one
\* array per content, and their identities are the negative numbers.
UserArr(elems) == Arr(-1 - UserCode(elems, 1), elems)

Init ==
  /\ st = InitSt
  /\ pre = PreOf(InitSt)
  /\ op = NoOp
  /\ gh = InitGh
  /\ cst = InitCst

-----------------------------------------------------------------------------
(* Spec: one WritableObservable S = o(0) and the observers s1, s2, s3.     *)

Set == \E v \in 0..MaxVal : DoSet("S", Num(v))

AddObs == \E ob \in SpiesOf("S") : DoAdd(ob)

RemoveObs == \E ob \in SpiesOf("S") : DoRemove(ob)

Pause == DoPause("S")

Resume == DoResume("S")

ObserverPause == \E ob \in Pausable : DoObPause(ob)

ObserverResume == \E ob \in Pausable : DoObResume(ob)

Next ==
  \/ Set
  \/ AddObs
  \/ RemoveObs

Spec == Init /\ [][Next]_vars

\* SpecPause: the same container with pause() and resume() of the container.
NextPause ==
  \/ Set
  \/ AddObs
  \/ RemoveObs
  \/ Pause
  \/ Resume

SpecPause == Init /\ [][NextPause]_vars

\* SpecObPause: the same container with pause() and resume() of its observers.
NextObPause ==
  \/ Set
  \/ AddObs
  \/ RemoveObs
  \/ ObserverPause
  \/ ObserverResume

SpecObPause == Init /\ [][NextObPause]_vars

-----------------------------------------------------------------------------
(* SpecChain: E = o(0) with the observers e1 and er; the callback of er    *)
(* sets E from inside the notification.  Sets, pause() and resume() of E   *)
(* and of its observers.  cst.made are the observers that exist (added at  *)
(* least once), cst.reg those added and not removed, cst.seen[ob] the      *)
(* value ob saw last (the new argument of its last call, or the value of   *)
(* E at its registration if that is later) and cst.before the same before  *)
(* the last operation.                                                     *)

ChainObs == {"e1", "er"}

RECURSIVE LastNew(_, _, _, _)
\* The new argument of the last call of ob in log from position i on, and
\* d when there is none.
LastNew(log, ob, d, i) ==
  IF i > Len(log) THEN d
  ELSE LastNew(log, ob, IF log[i].ob = ob THEN log[i].new ELSE d, i + 1)

\* The operation name on E, with observer ob and argument v, that leaves
\* the state s1.
ChainStep(name, ob, v, s1) ==
  /\ op' = [name |-> name, c |-> "E", ob |-> ob, v |-> v]
  /\ pre' = PreOf(st)
  /\ st' = s1
  /\ UNCHANGED gh
  /\ cst' = [made   |-> IF name = "add" THEN cst.made \cup {ob} ELSE cst.made,
             reg    |-> IF name = "add" THEN cst.reg \cup {ob}
                        ELSE IF name = "remove" THEN cst.reg \ {ob}
                        ELSE cst.reg,
             seen   |-> [x \in ChainObs |->
                           IF name = "add" /\ x = ob THEN st.value["E"]
                           ELSE LastNew(s1.log, x, cst.seen[x], 1)],
             before |-> cst.seen]

\* E.set(v)
ChainSet ==
  \E v \in 0..MaxVal :
    ChainStep("set", "none", Num(v), Run(<<"SetC", Begin(st), "E", Num(v)>>))

\* ob = E.addObserver(fn), or ob.startObserving() after a removal
ChainAddObs ==
  \E ob \in ChainObs :
    /\ ob \notin cst.reg
    /\ ChainStep("add", ob, Undef, Run(<<"AddObserver", Begin(st), "E", ob>>))

\* E.removeObserver(ob)
ChainRemoveObs ==
  \E ob \in ChainObs :
    /\ ob \in cst.reg
    /\ ChainStep("remove", ob, Undef,
                 Run(<<"RemoveObserver", Begin(st), "E", ob>>))

\* E.pause()
ChainPause == ChainStep("pause", "none", Undef, PauseC(Begin(st), "E"))

\* E.resume()
ChainResume == ChainStep("resume", "none", Undef, ResumeC(Begin(st), "E"))

\* ob.pause()
ChainObPause ==
  \E ob \in cst.made :
    ChainStep("obpause", ob, Undef, PauseOb(Begin(st), ob))

\* ob.resume()
ChainObResume ==
  \E ob \in cst.made :
    ChainStep("obresume", ob, Undef, ResumeOb(Begin(st), ob))

InitChain ==
  /\ st = InitStOf({"E"}, ChainObs)
  /\ pre = PreOf(InitStOf({"E"}, ChainObs))
  /\ op = NoOp
  /\ gh = InitGhOf({"E"})
  /\ cst = [made   |-> {},
            reg    |-> {},
            seen   |-> [x \in ChainObs |-> Undef],
            before |-> [x \in ChainObs |-> Undef]]

NextChain ==
  \/ ChainSet
  \/ ChainAddObs
  \/ ChainRemoveObs
  \/ ChainPause
  \/ ChainResume
  \/ ChainObPause
  \/ ChainObResume

SpecChain == InitChain /\ [][NextChain]_vars

-----------------------------------------------------------------------------
(* SpecUnsub: E = o(0) with the observers ex, e1 and er; the callback of   *)
(* ex removes e1 from inside the notification.  cst.reg are the observers  *)
(* that are registered as far as the calling code knows: those it added    *)
(* and neither it nor the callback of ex removed; cst.before is cst.reg    *)
(* before the last operation.                                              *)

UnsubObs == {"ex", "e1", "er"}

\* The callback of the remover ob ran during the operation that logged log.
RemoverRan(log, ob) == \E i \in 1..Len(log) : log[i].ob = ob

\* The operation name on E, with observer ob and argument v, that leaves
\* the state s1.
UnsubStep(name, ob, v, s1) ==
  /\ op' = [name |-> name, c |-> "E", ob |-> ob, v |-> v]
  /\ pre' = PreOf(st)
  /\ st' = s1
  /\ UNCHANGED gh
  /\ cst' = [reg    |-> ((IF name = "add" THEN cst.reg \cup {ob}
                          ELSE IF name = "remove" THEN cst.reg \ {ob}
                          ELSE cst.reg)
                         \ {Victim(x) : x \in {r \in Removers :
                                                 RemoverRan(s1.log, r)}}),
             before |-> cst.reg]

\* E.set(v)
UnsubSet ==
  \E v \in 0..MaxVal :
    UnsubStep("set", "none", Num(v), Run(<<"SetC", Begin(st), "E", Num(v)>>))

\* ob = E.addObserver(fn), or ob.startObserving() after a removal
UnsubAddObs ==
  \E ob \in UnsubObs :
    /\ ob \notin cst.reg
    /\ UnsubStep("add", ob, Undef, Run(<<"AddObserver", Begin(st), "E", ob>>))

\* E.removeObserver(ob)
UnsubRemoveObs ==
  \E ob \in UnsubObs :
    /\ ob \in cst.reg
    /\ UnsubStep("remove", ob, Undef,
                 Run(<<"RemoveObserver", Begin(st), "E", ob>>))

InitUnsub ==
  /\ st = InitStOf({"E"}, UnsubObs)
  /\ pre = PreOf(InitStOf({"E"}, UnsubObs))
  /\ op = NoOp
  /\ gh = InitGhOf({"E"})
  /\ cst = [reg |-> {}, before |-> {}]

NextUnsub ==
  \/ UnsubSet
  \/ UnsubAddObs
  \/ UnsubRemoveObs

SpecUnsub == InitUnsub /\ [][NextUnsub]_vars

-----------------------------------------------------------------------------
(* SpecTf: S, D1 = S.tf(f) and D2 = S.tf(g), two derived containers that   *)
(* observe the same source, with observers on all three.                   *)

TfSpies == {"s1", "d1a", "d2a"}

TfSet == \E v \in 0..MaxVal : DoSet("S", Num(v))

TfGet == DoGet("D1")

TfAddObs == \E ob \in TfSpies : DoAdd(ob)

TfRemoveObs == \E ob \in TfSpies : DoRemove(ob)

NextTf ==
  \/ TfSet
  \/ TfGet
  \/ TfAddObs
  \/ TfRemoveObs

SpecTf == Init /\ [][NextTf]_vars

-----------------------------------------------------------------------------
(* SpecTfWrite: S and D1 = S.tf(f), made without a setter, with the        *)
(* observers s1 and d1a; the calling code also calls D1.set.               *)

TfWriteSpies == {"s1", "d1a"}

TfWriteSet == \E v \in 0..MaxVal : DoSet("S", Num(v))

TfWriteSetDerived == \E v \in 0..MaxVal : DoSet("D1", Num(v))

TfWriteGet == DoGet("D1")

TfWriteAddObs == \E ob \in TfWriteSpies : DoAdd(ob)

TfWriteRemoveObs == \E ob \in TfWriteSpies : DoRemove(ob)

NextTfWrite ==
  \/ TfWriteSet
  \/ TfWriteSetDerived
  \/ TfWriteGet
  \/ TfWriteAddObs
  \/ TfWriteRemoveObs

SpecTfWrite == Init /\ [][NextTfWrite]_vars

-----------------------------------------------------------------------------
(* SpecOrder: S with the observers s1 and s2, and D2 = S.tf(g) with the    *)
(* observer d2a.                                                           *)

OrderSpies == {"s1", "s2", "d2a"}

OrderSet == \E v \in 0..MaxVal : DoSet("S", Num(v))

OrderAddObs == \E ob \in OrderSpies : DoAdd(ob)

OrderRemoveObs == \E ob \in OrderSpies : DoRemove(ob)

NextOrder ==
  \/ OrderSet
  \/ OrderAddObs
  \/ OrderRemoveObs

SpecOrder == Init /\ [][NextOrder]_vars

-----------------------------------------------------------------------------
(* SpecProp: R = o({a: 1, b: {c: 1}}) with the projections PA = R.p('a'),  *)
(* PB = R.p('b') and PC = R.p('b').p('c'), whose source is PBi.            *)

PropSpies == {"r1", "r2", "a1", "b1", "c1"}

\* Each set through a projection clones one object per level of the path.
PropSet ==
  /\ st.nextId + 2 <= FirstId + MaxIds
  /\ \E v \in 0..MaxVal : DoSet("PC", Num(v))

PropAddObs == \E ob \in PropSpies : DoAdd(ob)

PropRemoveObs == \E ob \in PropSpies : DoRemove(ob)

NextProp ==
  \/ PropSet
  \/ PropAddObs
  \/ PropRemoveObs

SpecProp == Init /\ [][NextProp]_vars

-----------------------------------------------------------------------------
(* The program A = o([1, 0]), I = o(0), W = A.p(I): a projection whose key *)
(* is a container.                                                         *)

KeySpies == {"sa", "sw"}

InitKey == InitOf({"A", "I", "W"}, KeySpies \cup {"rWA", "rWI", "gW"})

\* I.set(j) for an index j of the array
KeySetIndex == CanAlloc /\ \E j \in 0..1 : DoSet("I", Num(j))

\* W.set(v)
KeySet == CanAlloc /\ \E v \in 0..MaxVal : DoSet("W", Num(v))

KeyGet == CanAlloc /\ DoGet("W")

KeyAddObs == \E ob \in KeySpies : DoAdd(ob)

KeyRemoveObs == \E ob \in KeySpies : DoRemove(ob)

NextKey ==
  \/ KeySetIndex
  \/ KeySet
  \/ KeyGet
  \/ KeyAddObs
  \/ KeyRemoveObs

SpecKey == InitKey /\ [][NextKey]_vars

-----------------------------------------------------------------------------
(* The program PA = R.p('a'), observed, and PA2 = R.p('a'), which nobody   *)
(* observes.                                                               *)

ColdSpies == {"r1", "a1"}

InitCold ==
  InitOf({"R", "PA", "PA2"}, ColdSpies \cup {"rPA", "rPA2", "gPA", "gPA2"})

\* PA2.set(v)
ColdSet == CanAlloc /\ \E v \in 0..MaxVal : DoSet("PA2", Num(v))

ColdGet == \E c \in {"PA", "PA2"} : DoGet(c)

ColdAddObs == \E ob \in ColdSpies : DoAdd(ob)

ColdRemoveObs == \E ob \in ColdSpies : DoRemove(ob)

NextCold ==
  \/ ColdSet
  \/ ColdGet
  \/ ColdAddObs
  \/ ColdRemoveObs

SpecCold == InitCold /\ [][NextCold]_vars

-----------------------------------------------------------------------------
(* The program MA = o(0), MB = o(0), RO = MB.readonly(),                   *)
(* M = o.merge({a: MA, b: MB, c: RO}), Q = M.p('a').                       *)

MergedSpies == {"sma", "smb", "sq"}

InitMerged ==
  InitOf({"MA", "MB", "RO", "M", "Q"},
         MergedSpies \cup {"rMA", "rMB", "rMRO", "rQ", "gQ"})

\* Q.set(v)
MergedSet == CanAlloc /\ \E v \in 0..MaxVal : DoSet("Q", Num(v))

\* MA.set(v)
MergedSetSource == CanAlloc /\ \E v \in 0..MaxVal : DoSet("MA", Num(v))

\* M.get(), Q.get()
MergedGet == CanAlloc /\ \E c \in {"M", "Q"} : DoGet(c)

MergedAddObs == CanAlloc /\ \E ob \in MergedSpies : DoAdd(ob)

MergedRemoveObs == \E ob \in MergedSpies : DoRemove(ob)

NextMerged ==
  \/ MergedSet
  \/ MergedSetSource
  \/ MergedGet
  \/ MergedAddObs
  \/ MergedRemoveObs

SpecMerged == InitMerged /\ [][NextMerged]_vars

-----------------------------------------------------------------------------
(* The program MB = o(0), RO = MB.readonly(), with observers on both.      *)

ReadonlySpies == {"smb", "sro1", "sro2"}

InitReadonly == InitOf({"MB", "RO"}, ReadonlySpies)

\* MB.set(v)
ReadonlySetSource == \E v \in 0..MaxVal : DoSet("MB", Num(v))

\* RO.get(), MB.get()
ReadonlyGet == \E c \in {"MB", "RO"} : DoGet(c)

ReadonlyAddObs == \E ob \in ReadonlySpies : DoAdd(ob)

ReadonlyRemoveObs == \E ob \in ReadonlySpies : DoRemove(ob)

NextReadonly ==
  \/ ReadonlySetSource
  \/ ReadonlyGet
  \/ ReadonlyAddObs
  \/ ReadonlyRemoveObs

SpecReadonly == InitReadonly /\ [][NextReadonly]_vars

-----------------------------------------------------------------------------
(* The program FA = o([1, 0]), F = FA.filtered(x => x % 2 === 0).          *)

FilterSpies == {"sfa", "sf"}

InitFilter == InitOf({"FA", "F"}, FilterSpies \cup {"rF", "gF"})

\* F.set(w)
FilterSet == CanAlloc /\ \E w \in UserSeqs : DoSet("F", UserArr(w))

\* FA.set(w)
FilterSetSource == CanAlloc /\ \E w \in UserSeqs : DoSet("FA", UserArr(w))

\* F.get()
FilterGet == CanAlloc /\ DoGet("F")

FilterAddObs == CanAlloc /\ \E ob \in FilterSpies : DoAdd(ob)

FilterRemoveObs == \E ob \in FilterSpies : DoRemove(ob)

NextFilter ==
  \/ FilterSet
  \/ FilterSetSource
  \/ FilterGet
  \/ FilterAddObs
  \/ FilterRemoveObs

SpecFilter == InitFilter /\ [][NextFilter]_vars

-----------------------------------------------------------------------------
(* The program LA = o([1, 0]), L = LA.sliced(1).                           *)

SliceSpies == {"sla", "sl"}

InitSlice == InitOf({"LA", "L"}, SliceSpies \cup {"rL", "gL"})

\* L.set(w)
SliceSet == CanAlloc /\ \E w \in UserSeqs : DoSet("L", UserArr(w))

\* LA.set(w)
SliceSetSource == CanAlloc /\ \E w \in UserSeqs : DoSet("LA", UserArr(w))

\* L.get()
SliceGet == CanAlloc /\ DoGet("L")

SliceAddObs == CanAlloc /\ \E ob \in SliceSpies : DoAdd(ob)

SliceRemoveObs == \E ob \in SliceSpies : DoRemove(ob)

NextSlice ==
  \/ SliceSet
  \/ SliceSetSource
  \/ SliceGet
  \/ SliceAddObs
  \/ SliceRemoveObs

SpecSlice == InitSlice /\ [][NextSlice]_vars

-----------------------------------------------------------------------------
(* SpecSnapshot: one of four programs, named by cst.focus, and a snapshot  *)
(* cst.snap the calling code keeps of a value get() returned.              *)
(*   "R"   R = o({a: 1, b: {c: 1}}), PA = R.p('a'), PC = R.p('b').p('c')   *)
(*   "A"   A = o([1, 0]), I = o(0), W = A.p(I)                             *)
(*   "FA"  FA = o([1, 0]), F = FA.filtered(Pred)                           *)
(*   "LA"  LA = o([1, 0]), L = LA.sliced(1)                                *)
(* PC, W, F and L have one observer each, added and removed at will.       *)

SnapFamilies == {"R", "A", "FA", "LA"}

SnapContainers(f) ==
  CASE f = "R" -> {"R", "PA", "PBi", "PC"}
    [] f = "A" -> {"A", "I", "W"}
    [] f = "FA" -> {"FA", "F"}
    [] OTHER -> {"LA", "L"}

SnapSpies(f) ==
  CASE f = "R" -> {"c1"}
    [] f = "A" -> {"sw"}
    [] f = "FA" -> {"sf"}
    [] OTHER -> {"sl"}

SnapObs(f) ==
  CASE f = "R" -> {"c1", "rPA", "rPBi", "rPC", "gPA", "gPBi", "gPC"}
    [] f = "A" -> {"sw", "rWA", "rWI", "gW"}
    [] f = "FA" -> {"sf", "rF", "gF"}
    [] OTHER -> {"sl", "rL", "gL"}

\* The derived containers the calling code sets.
SnapDerived(f) ==
  CASE f = "R" -> {"PA", "PC"}
    [] f = "A" -> {"W"}
    [] f = "FA" -> {"F"}
    [] OTHER -> {"L"}

\* The partial objects the calling code passes to R.assign: {}, {a: 0},
\* {b: {c: 0}} and {a: 0, b: {c: 0}}.
Partials ==
  {Obj(-1, [NoFields EXCEPT !["a"] = a, !["b"] = b]) :
     a \in {Undef, Num(0)},
     b \in {Undef, Obj(-2, [NoFields EXCEPT !["c"] = Num(0)])}}

\* An operation named name on c, with argument v, that leaves the state s1.
DoWrite(name, c, v, s1) ==
  /\ op' = [name |-> name, c |-> c, ob |-> "none", v |-> v]
  /\ pre' = PreOf(st)
  /\ st' = s1
  /\ gh' = [gh EXCEPT !.prev[c] = st.value[c],
                      !.delivered = Deliver(@, st'.log, 1)]
  /\ UNCHANGED cst

\* The allocations of a behaviour are bounded.
SnapCanAlloc == st.nextId < FirstId + MaxIds

\* The element sequences of the array literals the calling code passes.
SnapSeqs == {<<>>, <<Num(0)>>}

\* c.set(v)
SnapWrite(c, v) == DoWrite("set", c, v, Run(<<"SetC", Begin(st), c, v>>))

\* root.set(array literal)
SnapSet ==
  /\ cst.focus # "R"
  /\ SnapCanAlloc
  /\ \E w \in SnapSeqs : SnapWrite(cst.focus, UserArr(w))

\* derived.set(v)
SnapSetDerived ==
  /\ SnapCanAlloc
  /\ \E c \in SnapDerived(cst.focus) :
       \E v \in IF cst.focus \in {"R", "A"}
                THEN {Num(n) : n \in 0..MaxVal}
                ELSE {UserArr(w) : w \in SnapSeqs} : SnapWrite(c, v)

\* R.assign(partial)
SnapAssign ==
  /\ cst.focus = "R"
  /\ SnapCanAlloc
  /\ \E p \in Partials : DoWrite("assign", "R", p,
                              Run(<<"AssignC", Begin(st), "R", p>>))

\* root.push(0), root.pop(), root.shift(), root.unshift(0)
SnapArrayOp ==
  /\ cst.focus # "R"
  /\ SnapCanAlloc
  /\ \E name \in {"push", "pop", "shift", "unshift"} :
       DoWrite(name, cst.focus, Num(0),
               Run(<<"ArrayOp", Begin(st), cst.focus, name, Num(0)>>))

\* snap = c.get()
SnapGet ==
  \E c \in {cst.focus} \cup SnapDerived(cst.focus) :
    /\ SnapCanAlloc
    /\ op' = [name |-> "get", c |-> c, ob |-> "none",
              v |-> Run(<<"Get", Begin(st), c>>).r]
    /\ pre' = PreOf(st)
    /\ st' = Run(<<"Get", Begin(st), c>>).s
    /\ gh' = [gh EXCEPT !.delivered = Deliver(@, st'.log, 1)]
    /\ cst' = [cst EXCEPT !.snap = op'.v]

SnapAddObs == SnapCanAlloc /\ \E ob \in SnapSpies(cst.focus) : DoAdd(ob)

SnapRemoveObs == \E ob \in SnapSpies(cst.focus) : DoRemove(ob)

InitSnapshot ==
  \E f \in SnapFamilies :
    /\ st = InitStOf(SnapContainers(f), SnapObs(f))
    /\ pre = PreOf(InitStOf(SnapContainers(f), SnapObs(f)))
    /\ op = NoOp
    /\ gh = InitGhOf(SnapContainers(f))
    /\ cst = [focus |-> f, snap |-> Undef]

NextSnapshot ==
  \/ SnapSet
  \/ SnapSetDerived
  \/ SnapAssign
  \/ SnapArrayOp
  \/ SnapGet
  \/ SnapAddObs
  \/ SnapRemoveObs

SpecSnapshot == InitSnapshot /\ [][NextSnapshot]_vars

-----------------------------------------------------------------------------
(* SpecSliceBound: SA = o([1, 0]), SS = o(0), SL = SA.sliced(SS), a slice  *)
(* whose start is a container, with the observer ssl of SL.                *)

SliceBoundSpies == {"ssl"}

InitSliceBound ==
  InitOf({"SA", "SS", "SL"}, SliceBoundSpies \cup {"rSLA", "rSLS", "gSL"})

\* SA.set(w)
SliceBoundSetSource ==
  CanAlloc /\ \E w \in UserSeqs : SnapWrite("SA", UserArr(w))

\* SS.set(j)
SliceBoundSetStart == CanAlloc /\ \E j \in 0..MaxVal : SnapWrite("SS", Num(j))

\* SL.get()
SliceBoundGet == CanAlloc /\ DoGet("SL")

SliceBoundAddObs == CanAlloc /\ \E ob \in SliceBoundSpies : DoAdd(ob)

SliceBoundRemoveObs == \E ob \in SliceBoundSpies : DoRemove(ob)

NextSliceBound ==
  \/ SliceBoundSetSource
  \/ SliceBoundSetStart
  \/ SliceBoundGet
  \/ SliceBoundAddObs
  \/ SliceBoundRemoveObs

SpecSliceBound == InitSliceBound /\ [][NextSliceBound]_vars

-----------------------------------------------------------------------------
(* Actions of Part II.  The calling code adds its functions in turn, each  *)
(* once, keeps the closure addObserver returns and calls it at most once.  *)

NextFn == Cardinality({k \in 1..MaxRegs : cst.handles[k] # NoHandle}) + 1

\* c.addObserver(fn, options)
ChgAdd ==
  /\ NextFn <= MaxRegs
  /\ \E c \in ChgContainers : \E opt \in Options :
       LET r == DepAddObserver([cst EXCEPT !.calls = <<>>], c,
                               Plain(NextFn), opt)
       IN cst' = [r.s EXCEPT !.handles[NextFn] = [c |-> c, fn |-> r.fn],
                             !.registered = @ \cup {NextFn},
                             !.last = "add"]
  /\ UNCHANGED <<st, pre, op, gh>>

\* The call of the closure addObserver returned.
ChgUnregister ==
  /\ \E k \in cst.registered :
       LET h == cst.handles[k]
           s == DepRemoveObserver([cst EXCEPT !.calls = <<>>], h.c, h.fn)
       IN cst' = [s EXCEPT !.registered = @ \ {k}, !.last = "unregister"]
  /\ UNCHANGED <<st, pre, op, gh>>

\* U.set(v)
ChgSet ==
  /\ \E v \in 0..MaxVal :
       cst' = [ChgSetValue([cst EXCEPT !.calls = <<>>], v)
                 EXCEPT !.last = "set"]
  /\ UNCHANGED <<st, pre, op, gh>>

\* The timer of a debounced function fires.
ChgTimeout ==
  /\ \E k \in 1..MaxRegs :
       /\ cst.timeout[k] # NoTimeout
       /\ cst' = [ChgCall([cst EXCEPT !.calls = <<>>, !.timeout[k] = NoTimeout],
                          Plain(k), cst.timeout[k])
                    EXCEPT !.last = "timeout"]
  /\ UNCHANGED <<st, pre, op, gh>>

NextChange ==
  \/ ChgAdd
  \/ ChgUnregister
  \/ ChgSet
  \/ ChgTimeout

SpecChange == Init /\ [][NextChange]_vars

-----------------------------------------------------------------------------
(* MergeObservable of the Change-based variant.  X = o(0) and              *)
(* G = o.merge({a: X, b: 0}): the entry at a is a container, the entry at  *)
(* b a literal.  cst holds: xval the value of X, xobs whether the function *)
(* G registers on X is among the observers of X, deps_b the entry          *)
(* this.deps.b, value the properties of the object this._value of G,       *)
(* observers the functions observing G; and of the last operation: calls   *)
(* the calls of those functions, xsets the number of calls of X.set, last  *)
(* its name, written the properties it wrote and result what get returned. *)

MrgKeys == {"a", "b"}

MrgFns == {"f1", "f2"}

NoProps == [k \in MrgKeys |-> Undef]

InitMrg ==
  [ xval      |-> Num(0),
    xobs      |-> FALSE,
    deps_b    |-> Num(0),
    value     |-> NoProps,
    observers |-> <<>>,
    calls     |-> <<>>,
    xsets     |-> 0,
    last      |-> "init",
    written   |-> NoProps,
    result    |-> NoProps ]

\* Observable.notify of G: every observer is called with this._value.
MrgNotify(m) ==
  [m EXCEPT !.calls = @ \o [i \in 1..Len(m.observers) |->
                              [fn |-> m.observers[i], seen |-> m.value]]]

\* The function _setupUnregisterFn registers on X, called with val.
MrgDepObserver(m, val) == MrgNotify([m EXCEPT !.value.a = val])

\* X.set(v): Observable.set and notify of X.
SrcSet(m, v) ==
  LET m1 == [m EXCEPT !.xval = v, !.xsets = @ + 1]
  IN IF m.xval # v /\ m.xobs THEN MrgDepObserver(m1, v) ELSE m1

\* MergeObservable._refresh.
MrgRefresh(m) == [m EXCEPT !.value = [a |-> m.xval, b |-> m.deps_b]]

\* DependantObservable.get().
MrgGet(m) ==
  LET m1 == IF Len(m.observers) = 0 THEN MrgRefresh(m) ELSE m
  IN [s |-> m1, r |-> m1.value]

\* MergeObservable.set(prop, value) with a defined value.
MrgSet(m, prop, v) ==
  IF prop = "a" THEN SrcSet(m, v)
  ELSE MrgNotify([m EXCEPT !.deps_b = v, !.value.b = v])

\* MergeObservable.set(partial): the loop over the properties of partial.
MrgSetAll(m, partial) ==
  LET m1 == IF partial.a # Undef THEN SrcSet(m, partial.a) ELSE m
  IN IF partial.b # Undef THEN [m1 EXCEPT !.deps_b = partial.b] ELSE m1

\* MergeObservable._setupUnregisterFn: notifications are paused while the
\* function is added to X and called at once, and G has no observer yet
\* when they resume.
MrgSetupUnregisterFn(m) ==
  [m EXCEPT !.xobs = TRUE, !.value = [a |-> m.xval, b |-> m.deps_b]]

\* DependantObservable.addObserver(fn): fn is added and called at once.
MrgAddObserver(m, fn) ==
  LET m1 == IF Len(m.observers) = 0 THEN MrgSetupUnregisterFn(m) ELSE m
  IN [m1 EXCEPT !.observers = Append(@, fn),
                !.calls = Append(@, [fn |-> fn, seen |-> m1.value])]

\* DependantObservable.removeObserver(fn, path).
MrgRemoveObserver(m, fn) ==
  LET m1 == [m EXCEPT !.observers = SelectSeq(@, LAMBDA x : x # fn)]
  IN IF Len(m1.observers) = 0 THEN [m1 EXCEPT !.xobs = FALSE] ELSE m1

MrgBegin(m, name) ==
  [m EXCEPT !.calls = <<>>, !.xsets = 0, !.last = name,
            !.written = NoProps, !.result = NoProps]

\* G.set(prop, v)
MrgDoSet ==
  /\ \E prop \in MrgKeys, v \in 0..MaxVal :
       cst' = MrgSet([MrgBegin(cst, "set") EXCEPT !.written[prop] = Num(v)],
                     prop, Num(v))
  /\ UNCHANGED <<st, pre, op, gh>>

\* G.set(partial), partial an object with some of the properties
MrgDoSetAll ==
  /\ \E partial \in [MrgKeys -> {Undef} \cup {Num(v) : v \in 0..MaxVal}] :
       /\ partial # NoProps
       /\ cst' = MrgSetAll([MrgBegin(cst, "setAll") EXCEPT
                              !.written = partial], partial)
  /\ UNCHANGED <<st, pre, op, gh>>

\* G.get()
MrgDoGet ==
  /\ cst' = [MrgGet(MrgBegin(cst, "get")).s EXCEPT
               !.result = MrgGet(MrgBegin(cst, "get")).r]
  /\ UNCHANGED <<st, pre, op, gh>>

\* X.set(v)
MrgDoSrcSet ==
  /\ \E v \in 0..MaxVal : cst' = SrcSet(MrgBegin(cst, "srcSet"), Num(v))
  /\ UNCHANGED <<st, pre, op, gh>>

\* G.addObserver(fn)
MrgDoAdd ==
  /\ \E fn \in MrgFns :
       /\ \A i \in 1..Len(cst.observers) : cst.observers[i] # fn
       /\ cst' = MrgAddObserver(MrgBegin(cst, "add"), fn)
  /\ UNCHANGED <<st, pre, op, gh>>

\* The call of the closure G.addObserver(fn) returned.
MrgDoRemove ==
  /\ \E i \in 1..Len(cst.observers) :
       cst' = MrgRemoveObserver(MrgBegin(cst, "remove"), cst.observers[i])
  /\ UNCHANGED <<st, pre, op, gh>>

InitMerge ==
  /\ st = InitSt
  /\ pre = PreOf(InitSt)
  /\ op = NoOp
  /\ gh = InitGh
  /\ cst = InitMrg

NextMerge ==
  \/ MrgDoSet
  \/ MrgDoSetAll
  \/ MrgDoGet
  \/ MrgDoSrcSet
  \/ MrgDoAdd
  \/ MrgDoRemove

SpecMerge == InitMerge /\ [][NextMerge]_vars

-----------------------------------------------------------------------------
(* arrayTransform of the variant whose Observer.call compares the new      *)
(* value with the one before.  TA = o([1, 0]) and                          *)
(* TT = TA.filtered(x => x % 2 === 0), which is                            *)
(* TA.arrayTransform(arr => the indexes of the elements that satisfy it).  *)
(* cst holds: src the value of TA, robs whether the refresh Observer of TT *)
(* is among the observers of TA, rob_old its old_value, fn_old and fn_last *)
(* the old_value and last_result of the Observer tf made around the        *)
(* getter, indexes the variable indexes of arrayTransform (has_indexes     *)
(* tells whether it was ever assigned), tval the value of TT, observers    *)
(* the observers of TT and old their old_value; nextId the next identity;  *)
(* and of the last operation: log the calls of the observers of TT, thrown *)
(* whether it threw, last its name, arg its argument, before the value of  *)
(* TA before it; fn which method made TT: filtered or sorted.              *)

TrObs == {"t1", "t2"}

InitTr ==
  [ fn          |-> "filtered",
    src         |-> ArrValue,
    robs        |-> FALSE,
    rob_old     |-> Undef,
    fn_old      |-> Undef,
    fn_last     |-> Undef,
    indexes     |-> <<>>,
    has_indexes |-> FALSE,
    tval        |-> Undef,
    observers   |-> <<>>,
    old         |-> [ob \in TrObs |-> Undef],
    nextId      |-> FirstId,
    log         |-> <<>>,
    thrown      |-> FALSE,
    last        |-> "init",
    arg         |-> Undef,
    before      |-> ArrValue ]

RECURSIVE TrCallAll(_, _)
\* Observable.notify of TT from observer i on: ob.call(this.__value), and
\* Observer.call calls its function when the value is defined and is not
\* the one it was called with before.
TrCallAll(m, i) ==
  IF i > Len(m.observers) THEN m
  ELSE LET ob == m.observers[i]
       IN TrCallAll(IF m.tval.t # "undef" /\ ~Same(m.old[ob], m.tval)
                    THEN [m EXCEPT !.old[ob] = m.tval,
                                   !.log = Append(@, [ob |-> ob,
                                                      new |-> m.tval,
                                                      old |-> m.old[ob]])]
                    ELSE m, i + 1)

\* The comparison function given to sorted: (a, b) => a - b.
Cmp(x, y) == x.n - y.n

RECURSIVE SortedLoop(_, _, _)
\* for (var i = 0; l < l; i++) indices.push(i): the test compares l with
\* itself.
SortedLoop(indices, i, l) ==
  IF l < l THEN SortedLoop(Append(indices, i), i + 1, l) ELSE indices

\* The place of index x in the sorted indices: after every index whose
\* element is not greater (Array.prototype.sort is stable).
InsertIndex(sorted, x, elems) ==
  LET k == Cardinality({j \in 1..Len(sorted) :
                          Cmp(elems[sorted[j] + 1], elems[x + 1]) <= 0})
  IN SubSeq(sorted, 1, k) \o <<x>> \o SubSeq(sorted, k + 1, Len(sorted))

RECURSIVE SortIndices(_, _, _, _)
\* indices.sort((a, b) => fn(arr[a], arr[b])), from position i on.
SortIndices(sorted, indices, elems, i) ==
  IF i > Len(indices) THEN sorted
  ELSE SortIndices(InsertIndex(sorted, indices[i], elems), indices, elems,
                   i + 1)

\* The function sorted gives to arrayTransform.
SortedIndexes(elems) ==
  SortIndices(<<>>, SortedLoop(<<>>, 0, Len(elems)), elems, 1)

\* The function given to arrayTransform, by filtered or by sorted.
TransformFn(m, elems) ==
  IF m.fn = "sorted" THEN SortedIndexes(elems) ELSE AliveIndexes(elems)

\* fn.call(this.get()) of tf: the getter of arrayTransform runs, and assigns
\* indexes, when the value of TA is not the one of the call before.
TrFnCall(m) ==
  IF m.src.t # "undef" /\ ~Same(m.fn_old, m.src)
  THEN LET idx == TransformFn(m, m.src.f)
           res == Arr(m.nextId, [j \in 1..Len(idx) |-> m.src.f[idx[j] + 1]])
       IN [m EXCEPT !.fn_old = m.src, !.indexes = idx, !.has_indexes = TRUE,
                    !.fn_last = res, !.nextId = @ + 1]
  ELSE m

\* VirtualObservable.refresh().
TrRefresh(m) ==
  LET m1 == TrFnCall(m)
  IN TrCallAll([m1 EXCEPT !.tval = m1.fn_last], 1)

\* The call of the refresh Observer of TT with the value of TA.
TrRefreshObserverCall(m) ==
  IF m.src.t # "undef" /\ ~Same(m.rob_old, m.src)
  THEN TrRefresh([m EXCEPT !.rob_old = m.src])
  ELSE m

\* Observable.set(value) on TA.
TrSrcSet(m, v) ==
  LET m1 == [m EXCEPT !.src = v]
  IN IF m1.robs THEN TrRefreshObserverCall(m1) ELSE m1

\* VirtualObservable.get().
TrGet(m) == IF Len(m.observers) = 0 THEN TrRefresh(m) ELSE m

\* VirtualObservable.set(value): the setter of arrayTransform.
TrSet(m, w) ==
  IF ~m.has_indexes \/ Len(w.f) # Len(m.indexes)
  THEN [m EXCEPT !.thrown = TRUE]
  ELSE TrSrcSet([m EXCEPT !.nextId = @ + 1],
                Arr(m.nextId, PlaceAll(m.src.f, m.indexes, w.f, 1)))

\* VirtualObservable.addObserver(ob): a refresh when TT had no observer,
\* then Observable.addObserver, which starts the refresh Observer.
TrAddObserver(m, ob) ==
  LET m1 == IF Len(m.observers) = 0 THEN TrRefresh(m) ELSE m
      m2 == [m1 EXCEPT !.observers = Append(@, ob)]
  IN IF Len(m2.observers) = 1
     THEN TrRefreshObserverCall([m2 EXCEPT !.robs = TRUE])
     ELSE m2

\* Observable.removeObserver(ob).
TrRemoveObserver(m, ob) ==
  LET m1 == [m EXCEPT !.observers = SelectSeq(@, LAMBDA x : x # ob)]
  IN IF Len(m1.observers) = 0 THEN [m1 EXCEPT !.robs = FALSE] ELSE m1

TrBegin(m, name, arg) ==
  [m EXCEPT !.log = <<>>, !.thrown = FALSE, !.last = name, !.arg = arg,
            !.before = m.src]

TrCanAlloc == cst.nextId < FirstId + MaxAllocs

\* TT.get()
TrDoGet ==
  /\ TrCanAlloc
  /\ cst' = TrGet(TrBegin(cst, "get", Undef))
  /\ UNCHANGED <<st, pre, op, gh>>

\* TT.set(w)
TrDoSet ==
  /\ TrCanAlloc
  /\ \E w \in UserSeqs : cst' = TrSet(TrBegin(cst, "set", UserArr(w)),
                                       UserArr(w))
  /\ UNCHANGED <<st, pre, op, gh>>

\* TA.set(w)
TrDoSrcSet ==
  /\ TrCanAlloc
  /\ \E w \in UserSeqs :
       cst' = TrSrcSet(TrBegin(cst, "srcSet", UserArr(w)), UserArr(w))
  /\ UNCHANGED <<st, pre, op, gh>>

\* TT.addObserver(fn)
TrDoAdd ==
  /\ TrCanAlloc
  /\ \E ob \in TrObs :
       /\ \A i \in 1..Len(cst.observers) : cst.observers[i] # ob
       /\ cst' = TrAddObserver(TrBegin(cst, "add", Undef), ob)
  /\ UNCHANGED <<st, pre, op, gh>>

\* TT.removeObserver(ob)
TrDoRemove ==
  /\ \E i \in 1..Len(cst.observers) :
       cst' = TrRemoveObserver(TrBegin(cst, "remove", Undef),
                               cst.observers[i])
  /\ UNCHANGED <<st, pre, op, gh>>

InitTransform ==
  /\ st = InitSt
  /\ pre = PreOf(InitSt)
  /\ op = NoOp
  /\ gh = InitGh
  /\ cst = InitTr

NextTransform ==
  \/ TrDoGet
  \/ TrDoSet
  \/ TrDoSrcSet
  \/ TrDoAdd
  \/ TrDoRemove

SpecTransform == InitTransform /\ [][NextTransform]_vars

\* The program TA = o([1, 0]), TT = TA.sorted((a, b) => a - b).
InitSorted ==
  /\ st = InitSt
  /\ pre = PreOf(InitSt)
  /\ op = NoOp
  /\ gh = InitGh
  /\ cst = [InitTr EXCEPT !.fn = "sorted"]

SpecSorted == InitSorted /\ [][NextTransform]_vars

-----------------------------------------------------------------------------
(* Debounced and throttled observers (src/observable.ts lines 81-146).     *)
(* The program is Z = o(0) with the observer "zt", made by make_observer   *)
(* with {debounce: d} or {throttle: ThrottleMs}, and the plain observer    *)
(* "z1".  The whole state is in cst; the clock cst.now is Date.now().      *)
(* A timer that is due runs before the clock advances further.             *)

\* The t of {throttle: t}, in ticks of the clock.
ThrottleMs == 2

\* The clock stops at MaxTime.
MaxTime == 5

\* Sets counted in one burst: 0, 1, ..., MaxBurst (MaxBurst is "or more").
MaxBurst == 2

\* The observers of Z.
TimedObs == {"zt", "z1"}

\* The class make_observer builds for ob (lines 140-146).
MakeObserver(c, ob) == IF ob = "zt" THEN c.kind ELSE "plain"

InitTm(kind) ==
  [kind |-> kind,
   value |-> 0,
   observers |-> <<>>,
   old_value |-> [ob \in TimedObs |-> 0],
   last_value |-> 0,
   last_call |-> 0,
   timeout |-> NoTimeout,
   now |-> 1,
   \* what the calling code knows
   reg |-> {},
   calls |-> <<>>,
   last |-> "init",
   delivered |-> 0,
   prev |-> 0,
   burst |-> 0,
   fired_burst |-> 0,
   called_at |-> 0,
   prev_called_at |-> 0,
   quiet |-> TRUE]

\* Observer.call (lines 48-58) of an observer that is not paused.
TmBaseCall(c, ob, v) ==
  [c EXCEPT !.old_value[ob] = v,
            !.calls = Append(c.calls, [ob |-> ob, new |-> v,
                                       old |-> c.old_value[ob]]),
            !.delivered = IF ob = "zt" THEN v ELSE c.delivered,
            !.called_at = IF ob = "zt" THEN c.now ELSE c.called_at]

\* DebounceObserver.call (lines 125-136): setTimeout gets no delay, so the
\* timer is due at once.
TmDebounceCall(c, ob, v) ==
  [c EXCEPT !.last_value = v, !.timeout = c.now]

\* ThrottleObserver.call (lines 90-111).
TmThrottleCall(c, ob, v) ==
  LET c1 == [c EXCEPT !.last_value = v]
      c2 == IF c1.last_call = 0 \/ c1.now - c1.last_call >= ThrottleMs
            THEN TmBaseCall(c1, ob, v)
            ELSE IF c1.timeout = NoTimeout
                 THEN [c1 EXCEPT !.timeout =
                         c1.now + (ThrottleMs - (c1.now - c1.last_call))]
                 ELSE c1
  IN [c2 EXCEPT !.last_call = c.now]

\* ob.call(v), by the class of ob.
TmCall(c, ob, v) ==
  CASE MakeObserver(c, ob) = "debounce" -> TmDebounceCall(c, ob, v)
    [] MakeObserver(c, ob) = "throttle" -> TmThrottleCall(c, ob, v)
    [] OTHER -> TmBaseCall(c, ob, v)

\* Observable.notify (lines 230-237), from the i-th observer on.
RECURSIVE TmNotify(_, _, _)
TmNotify(c, obs, i) ==
  IF i > Len(obs) THEN c ELSE TmNotify(TmCall(c, obs[i], c.value), obs, i + 1)

\* WritableObservable.set (lines 569-572).
TmSet(c, v) ==
  LET c1 == [c EXCEPT !.value = v] IN TmNotify(c1, c1.observers, 1)

\* Observable.addObserver (lines 242-256); Z observes nothing.
TmAddObserver(c, ob) ==
  [c EXCEPT !.old_value[ob] = c.value, !.observers = Append(c.observers, ob)]

\* Observable.removeObserver (lines 262-272); Z observes nothing.
TmRemoveObserver(c, ob) ==
  [c EXCEPT !.observers = FilterObservers(c.observers, ob)]

\* The callback given to setTimeout: lines 131-133 and 101-105.
TmTimeout(c) ==
  LET c1 == TmBaseCall([c EXCEPT !.timeout = NoTimeout], "zt", c.last_value)
  IN IF c.kind = "throttle" THEN [c1 EXCEPT !.last_call = c.now] ELSE c1

\* The calling code starts an operation.
TmBegin(c, name) ==
  [c EXCEPT !.calls = <<>>, !.last = name, !.prev = c.delivered,
            !.fired_burst = c.burst,
            !.prev_called_at = c.called_at,
            !.quiet = /\ c.timeout = NoTimeout
                      /\ c.called_at = 0 \/ c.now - c.called_at >= ThrottleMs]

TmDoSet ==
  \E v \in 0..MaxVal :
    /\ cst' = [TmSet(TmBegin(cst, "set"), v) EXCEPT
                 !.burst = IF "zt" \in cst.reg /\ cst.burst < MaxBurst
                           THEN cst.burst + 1 ELSE cst.burst]
    /\ UNCHANGED <<st, pre, op, gh>>

TmDoAdd ==
  \E ob \in TimedObs \ cst.reg :
    /\ cst' = [TmAddObserver(TmBegin(cst, "add"), ob) EXCEPT
                 !.reg = cst.reg \cup {ob},
                 !.delivered = IF ob = "zt" THEN cst.value ELSE cst.delivered,
                 !.burst = IF ob = "zt" THEN 0 ELSE cst.burst]
    /\ UNCHANGED <<st, pre, op, gh>>

TmDoRemove ==
  \E ob \in cst.reg :
    /\ cst' = [TmRemoveObserver(TmBegin(cst, "remove"), ob) EXCEPT
                 !.reg = cst.reg \ {ob}]
    /\ UNCHANGED <<st, pre, op, gh>>

\* The clock advances while no timer is due.
TmTick ==
  /\ cst.now < MaxTime
  /\ cst.timeout = NoTimeout \/ cst.timeout > cst.now
  /\ cst' = [TmBegin(cst, "tick") EXCEPT !.now = cst.now + 1]
  /\ UNCHANGED <<st, pre, op, gh>>

\* The pending timer fires.
TmFire ==
  /\ cst.timeout # NoTimeout
  /\ cst.timeout <= cst.now
  /\ cst' = [TmTimeout(TmBegin(cst, "fire")) EXCEPT !.burst = 0]
  /\ UNCHANGED <<st, pre, op, gh>>

InitTimed ==
  /\ st = InitSt
  /\ pre = PreOf(InitSt)
  /\ op = NoOp
  /\ gh = InitGh
  /\ \E kind \in {"debounce", "throttle"} : cst = InitTm(kind)

NextTimed ==
  \/ TmDoSet
  \/ TmDoAdd
  \/ TmDoRemove
  \/ TmTick
  \/ TmFire

SpecTimed == InitTimed /\ [][NextTimed]_vars

-----------------------------------------------------------------------------
(* Two containers bound both ways (src/observable.ts lines 569-572,        *)
(* 230-237, 48-58).  The program is BA = o(0), BB = o(0), the observer     *)
(* "ab" of BA, whose callback is v => BB.set(v), the observer "ba" of BB,  *)
(* whose callback is v => BA.set(v), and the plain observer "a1" of BA.    *)
(* The call stack holds MaxDepth nested set calls; one more raises a       *)
(* RangeError that unwinds the whole chain.                                *)

MaxDepth == 4

BdContainers == {"BA", "BB"}

BdObs == {"ab", "ba", "a1"}

\* Observer.observable.
BdTarget(ob) == IF ob = "ba" THEN "BB" ELSE "BA"

InitBd ==
  [value |-> [c \in BdContainers |-> 0],
   observers |-> [c \in BdContainers |-> <<>>],
   old_value |-> [ob \in BdObs |-> 0],
   overflow |-> FALSE,
   \* what the calling code knows
   reg |-> {},
   ncalls |-> 0,
   last |-> "init",
   c |-> "BA",
   arg |-> 0,
   insync |-> TRUE]

RECURSIVE BdSet(_, _, _, _), BdNotify(_, _, _, _)

\* Observer.call (lines 48-58) of an observer that is not paused, its
\* callback included.
BdCall(m, ob, v, d) ==
  LET m1 == [m EXCEPT !.old_value[ob] = v, !.ncalls = m.ncalls + 1]
  IN CASE ob = "ab" -> BdSet(m1, "BB", v, d + 1)
       [] ob = "ba" -> BdSet(m1, "BA", v, d + 1)
       [] OTHER -> m1

\* Observable.notify (lines 230-237), from the i-th observer on.
BdNotify(m, c, i, d) ==
  IF m.overflow \/ i > Len(m.observers[c]) THEN m
  ELSE BdNotify(BdCall(m, m.observers[c][i], m.value[c], d), c, i + 1, d)

\* WritableObservable.set (lines 569-572), as the d-th nested call of set.
BdSet(m, c, v, d) ==
  IF d > MaxDepth THEN [m EXCEPT !.overflow = TRUE]
  ELSE BdNotify([m EXCEPT !.value[c] = v], c, 1, d)

\* Observable.addObserver (lines 242-256).
BdAddObserver(m, ob) ==
  [m EXCEPT !.old_value[ob] = m.value[BdTarget(ob)],
            !.observers[BdTarget(ob)] = Append(@, ob)]

\* Observable.removeObserver (lines 262-272).
BdRemoveObserver(m, ob) ==
  [m EXCEPT !.observers[BdTarget(ob)] = FilterObservers(@, ob)]

BdBegin(m, name, c, arg) ==
  [m EXCEPT !.overflow = FALSE, !.ncalls = 0, !.last = name, !.c = c,
            !.arg = arg, !.insync = m.value["BA"] = m.value["BB"]]

BdDoSet ==
  \E c \in BdContainers, v \in 0..MaxVal :
    /\ cst' = BdSet(BdBegin(cst, "set", c, v), c, v, 1)
    /\ UNCHANGED <<st, pre, op, gh>>

BdDoAdd ==
  \E ob \in BdObs \ cst.reg :
    /\ cst' = [BdAddObserver(BdBegin(cst, "add", BdTarget(ob), 0), ob)
                 EXCEPT !.reg = cst.reg \cup {ob}]
    /\ UNCHANGED <<st, pre, op, gh>>

BdDoRemove ==
  \E ob \in cst.reg :
    /\ cst' = [BdRemoveObserver(BdBegin(cst, "remove", BdTarget(ob), 0), ob)
                 EXCEPT !.reg = cst.reg \ {ob}]
    /\ UNCHANGED <<st, pre, op, gh>>

InitBound ==
  /\ st = InitSt
  /\ pre = PreOf(InitSt)
  /\ op = NoOp
  /\ gh = InitGh
  /\ cst = InitBd

NextBound ==
  \/ BdDoSet
  \/ BdDoAdd
  \/ BdDoRemove

SpecBound == InitBound /\ [][NextBound]_vars

-----------------------------------------------------------------------------
(* The boolean combinators (src/observable.ts lines 441-456 and 826-840).  *)
(* The program is LA = o(0), LB = o(0); the calling code sets them, calls  *)
(* x.and(...), x.or(...), o.and(...) and o.or(...) on them and reads the   *)
(* containers these calls return.  cst.heap lists the containers made by   *)
(* isTruthy() in the order of their construction: heap[k] is the source of *)
(* the k-th.  A container is named "LA", "LB" or by its position in the    *)
(* heap.  As in the two-way binding, the call stack holds MaxDepth nested  *)
(* calls and one more raises a RangeError that unwinds the whole chain.    *)

LgContainers == {"LA", "LB"}

\* !!value
Truthy(n) == n # 0

InitLg ==
  [value    |-> [c \in LgContainers |-> 0],
   heap     |-> <<>>,
   \* the last call of the calling code and what it returned
   last     |-> "init",
   args     |-> <<>>,
   overflow |-> FALSE,
   result   |-> "none",
   got      |-> FALSE]

RECURSIVE LgMethod(_, _, _, _), LgReduce(_, _, _, _, _)

\* args.reduce((acc, arg) => arg.and(acc), this), lines 447 and 455, from
\* the i-th element of args on: what the call returns, or the overflow of
\* the stack.
LgReduce(name, args, i, acc, d) ==
  IF i > Len(args) THEN [overflow |-> FALSE, r |-> acc]
  ELSE LET res == LgMethod(name, args[i], <<acc>>, d + 1)
       IN IF res.overflow THEN res
          ELSE LgReduce(name, args, i + 1, res.r, d)

\* this.and(...args) and this.or(...args), lines 446-448 and 454-456, as
\* the d-th nested call.
LgMethod(name, this, args, d) ==
  IF d > MaxDepth THEN [overflow |-> TRUE, r |-> "none"]
  ELSE LgReduce(name, args, 1, this, d)

\* args.slice(1).reduce((lhs, rhs) => lhs.and(rhs), args[0]), lines 829-831
\* and 837-839, from the i-th element of args on.
RECURSIVE LgFold(_, _, _, _)
LgFold(name, args, i, lhs) ==
  IF i > Len(args) THEN [overflow |-> FALSE, r |-> lhs]
  ELSE LET res == LgMethod(name, lhs, <<args[i]>>, 1)
       IN IF res.overflow THEN res ELSE LgFold(name, args, i + 1, res.r)

\* o.and(...args) and o.or(...args), lines 826-840: the state after the
\* call, with what it returned.
LgStatic(m, name, args) ==
  IF Len(args) = 1
  THEN [m EXCEPT !.heap = Append(@, args[1]), !.result = Len(m.heap) + 1]
  ELSE LET res == LgFold(name, args, 2, args[1])
       IN [m EXCEPT !.overflow = res.overflow, !.result = res.r]

\* get() of the container isTruthy() made at position k (lines 435-437).
LgGet(m, k) == Truthy(m.value[m.heap[k]])

LgBegin(m, name, args) ==
  [m EXCEPT !.last = name, !.args = args, !.overflow = FALSE,
            !.result = "none", !.got = FALSE]

\* The operand lists of the calls: one or two of the containers.
LgArgs == UNION {[1..n -> LgContainers] : n \in 1..2}

\* c.set(v)
LgDoSet ==
  \E c \in LgContainers, v \in 0..MaxVal :
    /\ cst' = [LgBegin(cst, "set", <<c>>) EXCEPT !.value[c] = v]
    /\ UNCHANGED <<st, pre, op, gh>>

\* a.and(b) and a.or(b)
LgDoMethod ==
  \E name \in {"and", "or"}, a, b \in LgContainers :
    /\ LET res == LgMethod(name, a, <<b>>, 1)
       IN cst' = [LgBegin(cst, name, <<a, b>>) EXCEPT
                    !.overflow = res.overflow, !.result = res.r]
    /\ UNCHANGED <<st, pre, op, gh>>

\* o.and(...args) and o.or(...args)
LgDoStatic ==
  \E name \in {"and", "or"}, args \in LgArgs :
    /\ Len(args) = 1 => Len(cst.heap) < MaxAllocs
    /\ cst' = LgStatic(LgBegin(cst, "o." \o name, args), name, args)
    /\ UNCHANGED <<st, pre, op, gh>>

\* r.get() of a container r that o.and(x) or o.or(x) returned
LgDoGet ==
  \E k \in 1..Len(cst.heap) :
    /\ cst' = [LgBegin(cst, "get", <<k>>) EXCEPT !.got = LgGet(cst, k)]
    /\ UNCHANGED <<st, pre, op, gh>>

InitLogic ==
  /\ st = InitSt
  /\ pre = PreOf(InitSt)
  /\ op = NoOp
  /\ gh = InitGh
  /\ cst = InitLg

NextLogic ==
  \/ LgDoSet
  \/ LgDoMethod
  \/ LgDoStatic
  \/ LgDoGet

SpecLogic == InitLogic /\ [][NextLogic]_vars

-----------------------------------------------------------------------------
(* The variant whose pause() stops the observers (src/observable.ts lines  *)
(* 1612-1640 and 1752-1907).  The program is P = o(0) with the observers   *)
(* p1 and p2, made by P.createObserver(fn) and started by                  *)
(* ob.startObserving(); the calling code sets, pauses and resumes P.       *)
(* cst holds value, observers and paused_notify (the fields __value,       *)
(* __observers, __paused_notify), old_value and observing of each          *)
(* Observer, and of the last operation: its name last, the callback calls  *)
(* it made (calls) and whether it never returned (hang).  What the calling *)
(* code knows: reg, the observers it started and did not stop; atPause,    *)
(* those of them that were started when P was paused; atPauseValue, the    *)
(* value of P then; before and paused, the value of P and whether it was   *)
(* paused before the last operation.                                       *)

\* The iterations after which a loop that appends to the array it walks is
\* taken never to end.
MaxSpin == 4

PsObs == {"p1", "p2"}

InitPs ==
  [value        |-> Num(0),
   observers    |-> <<>>,
   paused_notify |-> -1,
   old_value    |-> [ob \in PsObs |-> Undef],
   observing    |-> [ob \in PsObs |-> FALSE],
   calls        |-> <<>>,
   hang         |-> FALSE,
   last         |-> "init",
   reg          |-> {},
   atPause      |-> {},
   atPauseValue |-> Num(0),
   before       |-> Num(0),
   paused       |-> FALSE]

\* Observer.call (lines 1621-1632).
PsCall(m, ob, v) ==
  IF v.t # "undef" /\ ~Same(m.old_value[ob], v)
  THEN [m EXCEPT !.old_value[ob] = v,
                 !.calls = Append(@, [ob |-> ob, new |-> v,
                                      old |-> m.old_value[ob]])]
  ELSE m

RECURSIVE PsCallAll(_, _, _)
\* for (var ob of this.__observers) ob.call(this.__value), lines 1834-1835.
PsCallAll(m, obs, i) ==
  IF i > Len(obs) THEN m
  ELSE PsCallAll(PsCall(m, obs[i], m.value), obs, i + 1)

\* Observable.notify (lines 1830-1837).
PsNotify(m) ==
  IF m.paused_notify > -1 THEN [m EXCEPT !.paused_notify = 1]
  ELSE PsCallAll(m, m.observers, 1)

\* Observable.set (lines 1806-1809).
PsSet(m, v) == PsNotify([m EXCEPT !.value = v])

\* Observable.addObserver (lines 1866-1882); P observes nothing.
PsAddObserver(m, ob) == [m EXCEPT !.observers = Append(@, ob)]

\* Observable.removeObserver (lines 1890-1907).
PsRemoveObserver(m, ob) ==
  [m EXCEPT !.observers = SelectSeq(@, LAMBDA x : x # ob)]

\* Observer.startObserving (lines 1634-1638).
StartObserving(m, ob) ==
  PsCall(PsAddObserver([m EXCEPT !.observing[ob] = TRUE], ob), ob, m.value)

\* Observer.stopObserving (lines 1640-1643).
StopObserving(m, ob) ==
  PsRemoveObserver([m EXCEPT !.observing[ob] = FALSE], ob)

RECURSIVE StopLoop(_, _, _), StartLoop(_, _)
\* The first loop of stopObservers over obs, the array __observers was when
\* the loop began: removeObserver assigns a new array to __observers.
StopLoop(m, obs, i) ==
  IF i > Len(obs) THEN m
  ELSE StopLoop(StopObserving(m, obs[i]), obs, i + 1)

\* Observable.stopObservers (lines 1762-1769); __observed is empty.
StopObservers(m) == StopLoop(m, m.observers, 1)

\* The first loop of startObservers, at position i of __observers:
\* startObserving pushes the observer onto the array the loop is walking.
StartLoop(m, i) ==
  IF i > Len(m.observers) THEN m
  ELSE IF i > MaxSpin THEN [m EXCEPT !.hang = TRUE]
  ELSE StartLoop(StartObserving(m, m.observers[i]), i + 1)

\* Observable.startObservers (lines 1771-1780); __observed is empty.
StartObservers(m) == StartLoop(m, 1)

\* Observable.pause (lines 1815-1819).
PsPause(m) ==
  LET m1 == StopObservers(m)
  IN IF m1.paused_notify = -1 THEN [m1 EXCEPT !.paused_notify = 0] ELSE m1

\* Observable.resume (lines 1821-1824).
PsResume(m) == StartObservers([m EXCEPT !.paused_notify = -1])

PsBegin(m, name) ==
  [m EXCEPT !.last = name, !.calls = <<>>, !.before = m.value,
            !.paused = m.paused_notify > -1]

\* P.set(v)
PsDoSet ==
  \E v \in 0..MaxVal :
    /\ ~cst.hang
    /\ cst' = PsSet(PsBegin(cst, "set"), Num(v))
    /\ UNCHANGED <<st, pre, op, gh>>

\* ob = P.createObserver(fn); ob.startObserving(), or ob.startObserving()
\* of an observer stopped before
PsDoStart ==
  \E ob \in PsObs \ cst.reg :
    /\ ~cst.hang
    /\ cst' = [StartObserving(PsBegin(cst, "start"), ob) EXCEPT
                 !.reg = @ \cup {ob}]
    /\ UNCHANGED <<st, pre, op, gh>>

\* ob.stopObserving()
PsDoStop ==
  \E ob \in cst.reg :
    /\ ~cst.hang
    /\ cst' = [StopObserving(PsBegin(cst, "stop"), ob) EXCEPT
                 !.reg = @ \ {ob}, !.atPause = @ \ {ob}]
    /\ UNCHANGED <<st, pre, op, gh>>

\* P.pause()
PsDoPause ==
  /\ ~cst.hang
  /\ cst' = [PsPause(PsBegin(cst, "pause")) EXCEPT
               !.atPause = IF cst.paused_notify = -1 THEN cst.reg ELSE @,
               !.atPauseValue = IF cst.paused_notify = -1 THEN cst.value
                                ELSE @]
  /\ UNCHANGED <<st, pre, op, gh>>

\* P.resume()
PsDoResume ==
  /\ ~cst.hang
  /\ cst' = PsResume(PsBegin(cst, "resume"))
  /\ UNCHANGED <<st, pre, op, gh>>

InitStop ==
  /\ st = InitSt
  /\ pre = PreOf(InitSt)
  /\ op = NoOp
  /\ gh = InitGh
  /\ cst = InitPs

NextStop ==
  \/ PsDoSet
  \/ PsDoStart
  \/ PsDoStop
  \/ PsDoPause
  \/ PsDoResume

SpecStop == InitStop /\ [][NextStop]_vars

-----------------------------------------------------------------------------
(* The variant of tf that guards the write-back with change_by_parent      *)
(* (src/unnamed/part_002 lines 31-235).  Observers are plain functions.    *)
(* The program is GX = new Observable(0) and                               *)
(*   GY = GX.tf(n => n + 1, (orig, v) => orig.set(v - 1)),                 *)
(* with the observer functions "x1" for GX and "y1", "y2" for GY, added    *)
(* without options; "ry" is the function tf gives to obs.observe.  cst     *)
(* holds the fields value and observers of both, unreg (whether GY holds   *)
(* the unregister function of "ry"), the closure variables                 *)
(* change_by_parent of tf and last_value, last_result of memoize, and of   *)
(* the last operation: its name last, its argument arg, the calls of the   *)
(* observer functions (calls) and the number of calls of fnset (fnsets).   *)

GdContainers == {"GX", "GY"}

GdFns(c) == IF c = "GX" THEN {"x1"} ELSE {"y1", "y2"}

\* fnget and fnset of the program.
GdFnGet(n) == IF n.t = "int" THEN Num(n.n + 1) ELSE Undef

InitGd ==
  [value            |-> [c \in GdContainers |->
                           IF c = "GX" THEN Num(0) ELSE Undef],
   observers        |-> [c \in GdContainers |-> <<>>],
   unreg            |-> FALSE,
   change_by_parent |-> FALSE,
   last_value       |-> Undef,
   last_result      |-> Undef,
   calls            |-> <<>>,
   fnsets           |-> 0,
   last             |-> "init",
   arg              |-> Undef,
   reg              |-> {}]

\* The function memoize returns (lines 31-41), called with (arg, old).
GdMemoGet(m, arg) ==
  IF Same(arg, m.last_value) THEN [m |-> m, r |-> m.last_result]
  ELSE [m |-> [m EXCEPT !.last_value = arg, !.last_result = GdFnGet(arg)],
        r |-> GdFnGet(arg)]

RECURSIVE GdSet(_, _, _), GdNotify(_, _, _, _), GdCall(_, _, _, _),
          GdPatchedSet(_, _)

\* Observable.set (lines 72-77), which GX and the constructor of GY use.
GdSet(m, c, v) ==
  LET old_value == m.value[c]
      m1        == [m EXCEPT !.value[c] = v]
  IN IF ~Same(old_value, v) THEN GdNotify(m1, c, old_value, 1) ELSE m1

\* Observable.notify (lines 117-120), from the i-th observer on.
GdNotify(m, c, old_value, i) ==
  IF i > Len(m.observers[c]) THEN m
  ELSE GdNotify(GdCall(m, m.observers[c][i], m.value[c], old_value),
                c, old_value, i + 1)

\* A call fn(value, old) of an observer function: the function of tf
\* (lines 203-208) marks the change as coming from the parent and sets GY;
\* the others record the call.
GdCall(m, fn, value, old) ==
  IF fn = "ry"
  THEN LET g == GdMemoGet([m EXCEPT !.change_by_parent = TRUE], value)
       IN GdPatchedSet(g.m, g.r)
  ELSE [m EXCEPT !.calls = Append(@, [fn |-> fn, new |-> value,
                                      old |-> old])]

\* obs.set as tf replaces it when fnset is given (lines 210-219).
GdPatchedSet(m, value) ==
  IF ~m.change_by_parent
  THEN [GdSet([m EXCEPT !.fnsets = @ + 1], "GX", Num(value.n - 1))
          EXCEPT !.change_by_parent = FALSE]
  ELSE m

\* obs.get as tf replaces it (line 200): get(this.get(), this.get()).
GdGet(m) == GdMemoGet(m, m.value["GX"])

\* Observable.addObserver (lines 125-142) without options.
GdAddObserver(m, c, fn) ==
  LET m1 == [m EXCEPT !.observers[c] = Append(@, fn)]
  IN IF c = "GY" /\ Len(m1.observers[c]) = 1
     THEN [m1 EXCEPT !.observers["GX"] = Append(@, "ry"), !.unreg = TRUE]
     ELSE m1

\* Observable.removeObserver (lines 148-154).
GdRemoveObserver(m, c, fn) ==
  LET m1 == [m EXCEPT !.observers[c] = SelectSeq(@, LAMBDA f : f # fn)]
  IN IF c = "GY" /\ Len(m1.observers[c]) = 0
     THEN [m1 EXCEPT !.observers["GX"] = SelectSeq(@, LAMBDA f : f # "ry")]
     ELSE m1

GdBegin(m, name, arg) ==
  [m EXCEPT !.last = name, !.arg = arg, !.calls = <<>>, !.fnsets = 0]

\* GX.set(v)
GdDoSrcSet ==
  \E v \in 0..MaxVal :
    /\ cst' = GdSet(GdBegin(cst, "srcset", Num(v)), "GX", Num(v))
    /\ UNCHANGED <<st, pre, op, gh>>

\* GY.set(w)
GdDoSet ==
  \E w \in 1..(MaxVal + 1) :
    /\ cst' = GdPatchedSet(GdBegin(cst, "set", Num(w)), Num(w))
    /\ UNCHANGED <<st, pre, op, gh>>

\* GY.get()
GdDoGet ==
  /\ LET g == GdGet(GdBegin(cst, "get", Undef))
     IN cst' = [g.m EXCEPT !.arg = g.r]
  /\ UNCHANGED <<st, pre, op, gh>>

\* c.addObserver(fn)
GdDoAdd ==
  \E c \in GdContainers : \E fn \in GdFns(c) \ cst.reg :
    /\ cst' = [GdAddObserver(GdBegin(cst, "add", Undef), c, fn) EXCEPT
                 !.reg = @ \cup {fn}]
    /\ UNCHANGED <<st, pre, op, gh>>

\* the unregister function that c.addObserver(fn) returned
GdDoRemove ==
  \E c \in GdContainers : \E fn \in GdFns(c) \cap cst.reg :
    /\ cst' = [GdRemoveObserver(GdBegin(cst, "remove", Undef), c, fn) EXCEPT
                 !.reg = @ \ {fn}]
    /\ UNCHANGED <<st, pre, op, gh>>

InitGuard ==
  /\ st = InitSt
  /\ pre = PreOf(InitSt)
  /\ op = NoOp
  /\ gh = InitGh
  /\ cst = InitGd

NextGuard ==
  \/ GdDoSrcSet
  \/ GdDoSet
  \/ GdDoGet
  \/ GdDoAdd
  \/ GdDoRemove

SpecGuard == InitGuard /\ [][NextGuard]_vars

-----------------------------------------------------------------------------
(* The wrapper o (src/observable.ts lines 802-804).  The program is        *)
(* W = o(0), VW = W.tf(x => x, x => W.set(x)), RO = W.readonly() and       *)
(* PO = new Observable(1); the calling code then applies o to plain values *)
(* and to containers.  cst.heap lists the containers in the order of their *)
(* construction, and a container is named by its position there.           *)

\* The value that is the container at position k of the heap.
Handle(k) == [t |-> "obs", n |-> k, f |-> <<>>]

\* x instanceof WritableObservable, for a container of the class cls
\* (class declarations at lines 182, 563, 739 and 765).
InstanceOfWritable(cls) ==
  cls \in {"WritableObservable", "VirtualWritableObservable"}

WrCell(cls, value, src) == [class |-> cls, value |-> value, src |-> src]

InitWrHeap ==
  <<WrCell("WritableObservable", Num(0), 1),
    WrCell("VirtualWritableObservable", Undef, 1),
    WrCell("VirtualObservable", Undef, 1),
    WrCell("Observable", Num(1), 4)>>

InitWr ==
  [heap |-> InitWrHeap,
   last |-> "init",
   arg |-> Undef,
   res |-> Undef,
   before |-> Len(InitWrHeap)]

\* get() of the container at position k, which has no observers: the value
\* (lines 197-199), or the getter's result after a refresh (lines 753-757
\* and 781-785).
WrGet(m, k) ==
  IF m.heap[k].class \in {"VirtualWritableObservable", "VirtualObservable"}
  THEN m.heap[m.heap[k].src].value
  ELSE m.heap[k].value

\* o(arg), lines 802-804.
O(m, arg) ==
  IF arg.t = "obs" /\ InstanceOfWritable(m.heap[arg.n].class)
  THEN [m |-> m, r |-> arg]
  ELSE [m |-> [m EXCEPT !.heap = Append(m.heap,
                  WrCell("WritableObservable", arg, Len(m.heap) + 1))],
        r |-> Handle(Len(m.heap) + 1)]

\* The values the calling code passes to o.
WrArgs(m) ==
  {Num(v) : v \in 0..MaxVal} \cup {Handle(k) : k \in 1..Len(m.heap)}

WrBegin(m, name, arg) ==
  [m EXCEPT !.last = name, !.arg = arg, !.res = Undef, !.before = Len(m.heap)]

\* res = o(arg)
WrDoWrap ==
  \E arg \in WrArgs(cst) :
    /\ Len(cst.heap) < Len(InitWrHeap) + MaxAllocs
    /\ cst' = [O(WrBegin(cst, "o", arg), arg).m EXCEPT
                 !.res = O(WrBegin(cst, "o", arg), arg).r]
    /\ UNCHANGED <<st, pre, op, gh>>

\* W.set(v): WritableObservable.set (lines 569-572); W has no observers.
WrDoSet ==
  \E v \in 0..MaxVal :
    /\ cst' = [WrBegin(cst, "set", Num(v)) EXCEPT !.heap[1].value = Num(v)]
    /\ UNCHANGED <<st, pre, op, gh>>

InitWrap ==
  /\ st = InitSt
  /\ pre = PreOf(InitSt)
  /\ op = NoOp
  /\ gh = InitGh
  /\ cst = InitWr

NextWrap ==
  \/ WrDoWrap
  \/ WrDoSet

SpecWrap == InitWrap /\ [][NextWrap]_vars

-----------------------------------------------------------------------------
(* Function observers with options (src/observable.ts lines 974-990,       *)
(* 1038-1042, 1105-1136, 1142-1152).  The program is X = o(0); the calling *)
(* code adds the functions 1..MaxRegs with addObserver(fn),                *)
(* addObserver(fn, {}) or addObserver(fn, {changesOnly: true}), calls the  *)
(* unregister functions it got and sets X.                                 *)

\* The options argument: left out, {} and {changesOnly: true}.
FoOptions == {"omitted", "empty", "changesOnly"}

InitFo ==
  [value |-> 0,
   observers |-> <<>>,
   last_val |-> [k \in 1..MaxRegs |-> 0],
   \* what the calling code knows
   registered |-> {},
   options |-> [k \in 1..MaxRegs |-> "omitted"],
   calls |-> <<>>,
   last |-> "init",
   k |-> 1,
   before |-> 0]

\* observer(new_value) of make_observer (lines 977-981), made for fn k.
FoObserver(m, k, v) ==
  [m EXCEPT !.calls = Append(m.calls, [k |-> k, new |-> v,
                                       old |-> m.last_val[k]]),
            !.last_val[k] = v]

\* Observable.notify (lines 1105-1112) of a container that is not paused,
\* from the i-th observer on.
RECURSIVE FoNotify(_, _, _)
FoNotify(m, obs, i) ==
  IF i > Len(obs) THEN m ELSE FoNotify(FoObserver(m, obs[i], m.value), obs, i + 1)

\* Observable.set (lines 1038-1042).
FoSet(m, v) ==
  LET m1 == [m EXCEPT !.value = v]
  IN IF m.value # v THEN FoNotify(m1, m1.observers, 1) ELSE m1

\* typeof options === 'function' || options && !options.changesOnly
\* (line 1122).
FirstCall(options) ==
  /\ options # "omitted"
  /\ options # "changesOnly"

\* Observable.addObserver(fn, options) (lines 1117-1136) for the function k;
\* X observes nothing.
FoAddObserver(m, k, options) ==
  LET m1 == [m EXCEPT !.last_val[k] = m.value,
                      !.observers = Append(m.observers, k)]
  IN IF FirstCall(options)
     THEN [m1 EXCEPT !.calls = Append(m1.calls, [k |-> k, new |-> m1.value,
                                                 old |-> m1.value])]
     ELSE m1

\* Observable.removeObserver (lines 1142-1152); X observes nothing.
FoRemoveObserver(m, k) ==
  [m EXCEPT !.observers = SelectSeq(m.observers, LAMBDA f : f # k)]

FoBegin(m, name, k) ==
  [m EXCEPT !.calls = <<>>, !.last = name, !.k = k, !.before = m.value]

FoDoAdd ==
  \E k \in (1..MaxRegs) \ cst.registered, options \in FoOptions :
    /\ cst' = [FoAddObserver(FoBegin(cst, "add", k), k, options) EXCEPT
                 !.registered = cst.registered \cup {k},
                 !.options[k] = options]
    /\ UNCHANGED <<st, pre, op, gh>>

FoDoUnregister ==
  \E k \in cst.registered :
    /\ cst' = [FoRemoveObserver(FoBegin(cst, "unregister", k), k) EXCEPT
                 !.registered = cst.registered \ {k}]
    /\ UNCHANGED <<st, pre, op, gh>>

FoDoSet ==
  \E v \in 0..MaxVal :
    /\ cst' = FoSet(FoBegin(cst, "set", cst.k), v)
    /\ UNCHANGED <<st, pre, op, gh>>

InitOptions ==
  /\ st = InitSt
  /\ pre = PreOf(InitSt)
  /\ op = NoOp
  /\ gh = InitGh
  /\ cst = InitFo

NextOptions ==
  \/ FoDoAdd
  \/ FoDoUnregister
  \/ FoDoSet

SpecOptions == InitOptions /\ [][NextOptions]_vars

-----------------------------------------------------------------------------
(* Statements about Part I.                                                *)

\* The calls of the callback of ob during the last operation.
CallsOf(ob) == SelectSeq(st.log, LAMBDA e : e.ob = ob)

\* The callback of ob was called exactly once, with (new, old).
CalledOnceWith(ob, new, old) ==
  /\ Len(CallsOf(ob)) = 1
  /\ Same(CallsOf(ob)[1].new, new)
  /\ Same(CallsOf(ob)[1].old, old)

\* The observers of c that the calling code added and did not remove.
Registered(c) == {ob \in gh.reg : Target(ob) = c}

\* C1: after S.set(v) on the unpaused S with v different from S.get(),
\* S.get() === v and every observer that was added before (and not removed)
\* and is not paused was called exactly once, with (v, value before).
C1_SetCallsEveryObserverOnce ==
  (op.name = "set" /\ op.c = "S" /\ pre.paused_notify["S"] = -1
     /\ ~Same(op.v, pre.value["S"]))
  => /\ Same(st.value["S"], op.v)
     /\ \A ob \in Registered("S") :
          (ob \in Pausable => ~pre.is_paused[ob])
          => CalledOnceWith(ob, op.v, pre.value["S"])

\* C2: S.set(v) with v === S.get() calls no observer callback.
C2_SetSameValueCallsNobody ==
  (op.name = "set" /\ op.c = "S" /\ Same(op.v, pre.value["S"]))
  => st.log = <<>>

\* C6: removeObserver(ob) removes exactly ob from the observer list: the
\* other observers stay registered, in their order.
C6_RemoveObserverRemovesOnlyOb ==
  [][(op'.name = "remove" /\ op'.c = "S")
     => st'.observers["S"] =
          SelectSeq(st.observers["S"], LAMBDA x : x # op'.ob)]_vars

\* C3: for D1 = S.tf(f), D1.get() === f(x, previous_x), where x is the value
\* of S and previous_x its value before the last S.set.
C3_TfGetIsFnOfCurrentAndPrevious ==
  (op.name = "get" /\ op.c = "D1" /\ gh.prev["S"].t = "int")
  => Same(op.v, UserFn("D1", st.value["S"], gh.prev["S"]))

\* C7: for every container X, each Observer of X.observed is in the
\* observers of its target if and only if X.observers is not empty.
C7_UpstreamActiveIffObserved ==
  \A x \in Containers : \A i \in 1..Len(Observed(x)) :
    (\E j \in 1..Len(st.observers[Target(Observed(x)[i])]) :
        st.observers[Target(Observed(x)[i])][j] = Observed(x)[i])
    <=> (Len(st.observers[x]) > 0)

\* The position of x in seq, 0 when x is not in seq.
Pos(seq, x) ==
  IF \E i \in 1..Len(seq) : seq[i] = x
  THEN CHOOSE i \in 1..Len(seq) : seq[i] = x ELSE 0

\* C9: during one operation the observers of a container are called in the
\* order of their addObserver calls, and an observer of a derived container
\* is called when the refresh has stored the new value: the container holds
\* the value the callback is called with.
C9_CalledInAddOrderAfterRefresh ==
  /\ \A i, j \in 1..Len(st.log) :
       (i < j /\ Target(st.log[i].ob) = Target(st.log[j].ob))
       => Pos(gh.addOrder, st.log[i].ob) < Pos(gh.addOrder, st.log[j].ob)
  /\ \A i \in 1..Len(st.log) :
       Def(Target(st.log[i].ob)).kind # "o"
       => /\ Same(st.log[i].seen, st.log[i].new)
          /\ Same(st.value[Target(st.log[i].ob)], st.log[i].new)

\* A set that called s1, then d2a (through the refresh of D2), then s2.
C9_Witness ==
  /\ op.name = "set"
  /\ Len(st.log) = 3
  /\ st.log[1].ob = "s1" /\ st.log[2].ob = "d2a" /\ st.log[3].ob = "s2"

\* C4: while S is paused a set calls no observer, and the resume() after at
\* least one set calls every observer S had at the pause() exactly once,
\* with (last value set, value of S before the pause).
C4_ResumeCallsEveryObserverOnce ==
  /\ (op.name = "set" /\ pre.paused_notify["S"] > -1) => st.log = <<>>
  /\ (op.name = "resume" /\ pre.paused_notify["S"] = 1)
     => \A ob \in gh.atPause :
          CalledOnceWith(ob, pre.value["S"], gh.beforePause["S"])

\* C5: while the observer is paused its callback is not called, and its
\* resume() after at least one set calls the callback exactly once, with
\* new = the last value set and old = the value last delivered to it (op.v).
C5_ObserverResumeDeliversLastValue ==
  /\ (op.name = "set" /\ \E ob \in Pausable : pre.is_paused[ob])
     => \A ob \in Pausable : pre.is_paused[ob] => CallsOf(ob) = <<>>
  /\ (op.name = "obresume" /\ pre.is_paused[op.ob] /\ gh.obSets[op.ob])
     => CalledOnceWith(op.ob, pre.value["S"], op.v)

\* C10: with observers on R, PA, PB and PC, one PC.set(v) with v different
\* from R.get().b.c replaces the value of R by a new object that differs
\* only along b.c, calls the observers of R, PB and PC exactly once with
\* (new value, previous value) and does not call the observer of PA.
C10_PathSetCallsPathObserversOnce ==
  (op.name = "set" /\ op.c = "PC" /\ {"r1", "a1", "b1", "c1"} \subseteq gh.reg
     /\ ~Same(op.v, Prop(Prop(pre.value["R"], "b"), "c")))
  => /\ ~Same(st.value["R"], pre.value["R"])
     /\ Same(Prop(st.value["R"], "a"), Prop(pre.value["R"], "a"))
     /\ Same(Prop(Prop(st.value["R"], "b"), "c"), op.v)
     /\ CalledOnceWith("r1", st.value["R"], pre.value["R"])
     /\ CalledOnceWith("b1", Prop(st.value["R"], "b"), Prop(pre.value["R"], "b"))
     /\ CalledOnceWith("c1", op.v, Prop(Prop(pre.value["R"], "b"), "c"))
     /\ CallsOf("a1") = <<>>

\* C11: for W = A.p(I): after I.set(j), W.get() === A.get()[j] and the
\* observer of W was called exactly once with (A[j], A[previous index]) when
\* those differ; after W.set(v), A is the array before with exactly the
\* element at the index replaced by v, the observer of A was called exactly
\* once, and the observer of W exactly once with (v, A[j] before) when those
\* differ.
C11_KeyProjectionFollowsIndex ==
  /\ (op.name = "set" /\ op.c = "I")
     => /\ Same(Get(st, "W").r, Index(st.value["A"], op.v.n))
        /\ ("sw" \in gh.reg
             /\ ~Same(Index(st.value["A"], op.v.n),
                      Index(st.value["A"], pre.value["I"].n)))
           => CalledOnceWith("sw", Index(st.value["A"], op.v.n),
                             Index(st.value["A"], pre.value["I"].n))
  /\ (op.name = "set" /\ op.c = "W")
     => /\ st.value["A"].f =
             SetIndex(pre.value["A"].f, st.value["I"].n, op.v)
        /\ "sa" \in gh.reg => Len(CallsOf("sa")) = 1
        /\ ("sw" \in gh.reg
             /\ ~Same(op.v, Index(pre.value["A"], st.value["I"].n)))
           => CalledOnceWith("sw", op.v,
                             Index(pre.value["A"], st.value["I"].n))

\* C12: PA2 = R.p('a') is never observed and PA = R.p('a') is observed:
\* after PA2.set(v), R.get().a === v and both PA.get() and PA2.get() return
\* v; at any time PA2.get() returns the current property a of R.
C12_ColdProjectionReadsSource ==
  /\ Same(Get(st, "PA2").r, Prop(st.value["R"], "a"))
  /\ (op.name = "set" /\ op.c = "PA2" /\ "a1" \in gh.reg)
     => /\ Same(Prop(st.value["R"], "a"), op.v)
        /\ Same(Get(st, "PA").r, op.v)
        /\ Same(Get(st, "PA2").r, op.v)

\* C13: for M = o.merge({a: MA, ...}) and Q = M.p('a'): Q.get() === MA.get()
\* at all times; Q.set(v) sets MA to v, calls the observer of MA exactly once
\* with (v, MA before) and the observer of Q exactly once; MA.set(w) calls
\* the observer of Q exactly once with (w, MA before).  The observer of Q is
\* required to be called when the value differs from the one before.
C13_MergedPropertyFollowsSource ==
  /\ Same(Get(st, "Q").r, st.value["MA"])
  /\ (op.name = "set" /\ op.c = "Q")
     => /\ Same(st.value["MA"], op.v)
        /\ "sma" \in gh.reg => CalledOnceWith("sma", op.v, pre.value["MA"])
        /\ ("sq" \in gh.reg /\ ~Same(op.v, pre.value["MA"]))
           => Len(CallsOf("sq")) = 1
  /\ (op.name = "set" /\ op.c = "MA" /\ "sq" \in gh.reg
      /\ ~Same(op.v, pre.value["MA"]))
     => CalledOnceWith("sq", op.v, pre.value["MA"])

\* C14: writing the key a through the merge (Q.set(v)) notifies only the
\* source mapped to a: the observer of MB is not called.
C14_MergeSetNotifiesOnlyWrittenKey ==
  (op.name = "set" /\ op.c = "Q" /\ "smb" \in gh.reg)
  => CallsOf("smb") = <<>>

\* C16: for every key of M = o.merge(obj) whose entry is a container, the
\* read-only RO included, M.get()[key] is the value the container holds and
\* never the container itself.
C16_MergeGetUnwrapsContainers ==
  (op.name = "get" /\ op.c = "M")
  => /\ Same(Prop(op.v, "a"), st.value["MA"])
     /\ Same(Prop(op.v, "b"), st.value["MB"])
     /\ Same(Prop(op.v, "c"), Get(st, "RO").r)

\* The elements of the array arr that satisfy Pred, in order.
Alive(arr) == SelectSeq(arr.f, Pred)

\* C17: for F = FA.filtered(Pred): F.get() is the sequence of the elements
\* of FA.get() that satisfy Pred, in order; F.set(w) with as many elements
\* as F.get() makes FA.get() the array before with the i-th element that
\* satisfied Pred replaced by w[i], through exactly one notification of FA,
\* after which F.get() is the filter of the new source and the observer of
\* F has been called exactly once.
C17_FilteredWritesBackAtAliveIndexes ==
  /\ (op.name = "get" /\ op.c = "F")
     => op.v.t = "arr" /\ op.v.f = Alive(st.value["FA"])
  /\ (op.name = "set" /\ op.c = "F"
      /\ Len(op.v.f) = Len(Alive(pre.value["FA"])))
     => /\ ~st.thrown
        /\ st.value["FA"].f =
             PlaceAll(pre.value["FA"].f, AliveIndexes(pre.value["FA"].f),
                      op.v.f, 1)
        /\ "sfa" \in gh.reg => Len(CallsOf("sfa")) = 1
        /\ Get(st, "F").r.f = Alive(st.value["FA"])
        /\ "sf" \in gh.reg => Len(CallsOf("sf")) = 1

\* C18: F.set(w) with a number of elements different from the number of
\* elements of FA.get() that satisfy Pred throws, leaves FA.get() unchanged
\* and calls no observer, whether F is observed, was read or was never read.
C18_FilteredSetWrongLengthThrows ==
  (op.name = "set" /\ op.c = "F"
   /\ Len(op.v.f) # Len(Alive(pre.value["FA"])))
  => /\ st.thrown
     /\ st.value["FA"] = pre.value["FA"]
     /\ st.log = <<>>

\* arr.slice(1): the elements of the array arr from index 1 on.
Sliced(arr) == SubSeq(arr.f, 2, Len(arr.f))

\* C20: for L = LA.sliced(1): an L.set(w) that succeeds leaves the length of
\* LA.get() as it was, and an L.set(w) with a number of elements different
\* from that of L.get() fails without changing LA.
C20_SlicedSetKeepsLength ==
  (op.name = "set" /\ op.c = "L")
  => /\ ~st.thrown => Len(st.value["LA"].f) = Len(pre.value["LA"].f)
     /\ Len(op.v.f) # Len(Sliced(pre.value["LA"]))
        => st.thrown /\ st.value["LA"] = pre.value["LA"]

-----------------------------------------------------------------------------
(* Statements about Part II.                                               *)

\* C15: G = o.merge({a: X, b: 0}) has a literal at b: after G.set('b', v)
\* or G.set(partial) with partial.b = v, G.get().b === v whether or not G has
\* observers, and X.set is not called for b.
C15_MergeLiteralEntryIsWritten ==
  (cst.last \in {"set", "setAll"} /\ cst.written.b # Undef)
  => /\ MrgGet(cst).r.b = cst.written.b
     /\ cst.written.a = Undef => cst.xsets = 0

\* C19: for TT = TA.filtered(Pred), built on arrayTransform: a TT.set(w)
\* that succeeds, w having as many elements as the transform function
\* selects in the value TA holds at that time, places each w[i] at the i-th
\* index selected there, also when TA was set after the last TT.get() while
\* TT had no observers.
C19_WriteBackUsesCurrentIndexes ==
  (cst.last = "set" /\ ~cst.thrown
   /\ Len(cst.arg.f) = Len(AliveIndexes(cst.before.f)))
  => cst.src.f = PlaceAll(cst.before.f, AliveIndexes(cst.before.f),
                          cst.arg.f, 1)

\* The sequences a and b hold the same elements, each as many times.
IsPermutation(a, b) ==
  /\ Len(a) = Len(b)
  /\ \A i \in 1..Len(a) :
       Cardinality({j \in 1..Len(a) : a[j] = a[i]})
         = Cardinality({j \in 1..Len(b) : b[j] = a[i]})

\* C21: for TT = TA.sorted(Cmp): TT.get() has the length of TA.get(), is a
\* permutation of its elements and is ordered, Cmp of every adjacent pair
\* being <= 0, after any sequence of TA.set.
C21_SortedIsOrderedPermutation ==
  (cst.fn = "sorted" /\ cst.last = "get")
  => /\ cst.tval.t = "arr"
     /\ IsPermutation(cst.tval.f, cst.src.f)
     /\ \A i \in 1..(Len(cst.tval.f) - 1) :
          Cmp(cst.tval.f[i], cst.tval.f[i + 1]) <= 0

\* The calls of the callback of ob made by the last operation.
TmCallsTo(ob) == {i \in 1..Len(cst.calls) : cst.calls[i].ob = ob}

\* The last operation called the callback of "zt" once, with (new, old).
TmCalledOnce(new, old) ==
  /\ Cardinality(TmCallsTo("zt")) = 1
  /\ \A i \in TmCallsTo("zt") : cst.calls[i].new = new /\ cst.calls[i].old = old

\* C22: for the observer "zt" added with {debounce: d} and not removed: a
\* set never calls its callback synchronously and leaves a timer pending; a
\* burst of one or more sets made before the timer fires gives exactly one
\* call, when the timer fires, with the last value set as new and the value
\* of the previous call (or the value at subscription) as old.
C22_DebounceCoalescesBurst ==
  (cst.kind = "debounce" /\ "zt" \in cst.reg)
  => /\ cst.last = "set" => (TmCallsTo("zt") = {} /\ cst.timeout # NoTimeout)
     /\ (cst.last = "fire" /\ cst.fired_burst >= 1)
          => TmCalledOnce(cst.value, cst.prev)

\* C23: for the observer "zt" added with {throttle: ThrottleMs} and not
\* removed: the first set in a quiet window calls the callback at once with
\* (value, previous delivered value); sets inside the window call nothing
\* and leave one timer pending, whose firing makes one call with the last
\* value set as new and the previous delivered value as old; two calls are
\* never closer than ThrottleMs.
C23_ThrottleLeadingAndTrailing ==
  (cst.kind = "throttle" /\ "zt" \in cst.reg)
  => /\ (cst.last = "set" /\ cst.quiet) => TmCalledOnce(cst.value, cst.prev)
     /\ (cst.last = "set" /\ ~cst.quiet)
          => (TmCallsTo("zt") = {} /\ cst.timeout # NoTimeout)
     /\ (cst.last = "fire" /\ cst.fired_burst >= 1)
          => TmCalledOnce(cst.value, cst.prev)
     /\ (TmCallsTo("zt") # {} /\ cst.prev_called_at # 0)
          => cst.now - cst.prev_called_at >= ThrottleMs

\* C24: once the debounced or throttled observer "zt" is removed while its
\* timer is pending, the firing of that timer does not call its callback.
C24_NoCallAfterUnsubscribe ==
  (cst.last = "fire" /\ "zt" \notin cst.reg) => TmCallsTo("zt") = {}

\* D1.set(v) has just been called.
TfWriteStep == op'.name = "set" /\ op'.c = "D1"

\* C25: D1 = S.tf(f) has no setter: D1.set(v) fails with an error raised to
\* the caller, calls no observer, and leaves the value of D1, the value of
\* S and the state of every observer as they were.
C25_SetWithoutSetterThrows ==
  [][TfWriteStep => st' = [st EXCEPT !.thrown = TRUE, !.log = <<>>]]_vars

\* D1.set(v) was called while D1 had an observer and a value, and it threw.
C25_Witness ==
  /\ op.name = "set" /\ op.c = "D1" /\ st.thrown
  /\ "d1a" \in gh.reg /\ st.observers["D1"] # <<>>
  /\ st.value["D1"] # Undef /\ ~Same(st.value["D1"], op.v)

\* C26: with BA and BB bound both ways by the observers "ab" and "ba", both
\* registered, and holding the same value, every BA.set(x) returns, the
\* chain of callbacks having ended by itself, and then
\* BA.get() === BB.get() === x.
C26_BoundSetsTerminate ==
  (cst.last = "set" /\ cst.c = "BA" /\ {"ab", "ba"} \subseteq cst.reg
   /\ cst.insync)
  => /\ ~cst.overflow
     /\ cst.value["BA"] = cst.arg
     /\ cst.value["BB"] = cst.arg

\* C27: o(arg) returns arg itself, making no container, when arg is a
\* container of any class, and then o(arg).get() === arg.get(); when arg is
\* no container, o(arg) is a new container that holds arg.
C27_WrapIsIdempotent ==
  cst.last = "o"
  => IF cst.arg.t = "obs"
     THEN /\ cst.res = cst.arg
          /\ Len(cst.heap) = cst.before
          /\ WrGet(cst, cst.res.n) = WrGet(cst, cst.arg.n)
     ELSE /\ cst.res = Handle(cst.before + 1)
          /\ Len(cst.heap) = cst.before + 1
          /\ WrGet(cst, cst.res.n) = cst.arg

\* The objects and arrays a value is made of: itself and its properties.
ObjectsOf(v) ==
  IF v.t = "arr" THEN {v}
  ELSE IF v.t = "obj"
  THEN {v} \cup {v.f[k] : k \in {j \in Keys : v.f[j].t \in {"obj", "arr"}}}
  ELSE {}

\* The objects and arrays the containers hold.
Installed == UNION {ObjectsOf(st.value[c]) : c \in DOMAIN st.value}

\* The operations that write through a clone of the value of the source.
CloneWrites ==
  \/ op.name \in {"assign", "push", "pop", "shift", "unshift"}
  \/ op.name = "set" /\ op.c # cst.focus

\* C28: an object or array that get() returned is never modified: whatever
\* set, assign, push, pop, shift, unshift, p(key).set, filtered(..).set and
\* sliced(..).set were called since, an object with the identity of the
\* snapshot, or of one of its properties, still has the content it had.  Each
\* of these operations that succeeds installs in the source an object other
\* than the one it held and other than the snapshot; set installs the
\* object it is given.
C28_SnapshotsAreImmutable ==
  /\ \A x \in ObjectsOf(cst.snap) : \A y \in Installed : Same(x, y) => x = y
  /\ (CloneWrites /\ ~st.thrown
      /\ st.value[cst.focus].t \in {"obj", "arr"})
       => /\ ~Same(st.value[cst.focus], pre.value[cst.focus])
          /\ ~Same(st.value[cst.focus], cst.snap)
  /\ (op.name = "set" /\ op.c = cst.focus) => st.value[cst.focus] = op.v

\* The calling code holds a snapshot of the source, and a write through a
\* clone has since given the source another content.
C28_Witness ==
  /\ CloneWrites /\ ~st.thrown
  /\ cst.snap.t \in {"obj", "arr"}
  /\ Same(cst.snap, pre.value[cst.focus])
  /\ st.value[cst.focus].t = cst.snap.t
  /\ st.value[cst.focus].f # cst.snap.f

\* The calls of the function k made by the last operation.
FoCallsOf(k) == SelectSeq(cst.calls, LAMBDA call : call.k = k)

\* C29: addObserver(fn, options) calls fn at once, exactly once and with the
\* current value as both arguments, unless options.changesOnly is true, also
\* when options is left out; with changesOnly: true fn is not called before
\* the value changes, and is then called with the new and the old value.
C29_FirstCallUnlessChangesOnly ==
  /\ cst.last = "add" =>
       FoCallsOf(cst.k) =
         IF cst.options[cst.k] = "changesOnly" THEN <<>>
         ELSE <<[k |-> cst.k, new |-> cst.value, old |-> cst.value]>>
  /\ (cst.last = "set" /\ cst.value # cst.before) =>
       \A k \in cst.registered :
         FoCallsOf(k) = <<[k |-> k, new |-> cst.value, old |-> cst.before]>>

\* arr.slice(start): the elements of the array arr from index start.n on.
SliceFrom(arr, start) == SubSeq(arr.f, start.n + 1, Len(arr.f))

\* C30: for SL = SA.sliced(SS), SS being a container: after any sets of SA
\* and SS, two changes of SS in a row included, SL.get() has the elements of
\* SA.get().slice(SS.get()), whether or not SL has observers; and while SL
\* is observed, a change of SS that alters the slice calls its observer.
C30_SliceFollowsBounds ==
  /\ (op.name = "get" /\ op.c = "SL")
       => /\ op.v.t = "arr"
          /\ op.v.f = SliceFrom(st.value["SA"], st.value["SS"])
  /\ (op.name = "set" /\ op.c = "SS" /\ "ssl" \in gh.reg
      /\ SliceFrom(st.value["SA"], st.value["SS"])
           # SliceFrom(st.value["SA"], pre.value["SS"]))
       => \E i \in 1..Len(st.log) : st.log[i].ob = "ssl"

\* C37: ob.resume() on an observer that is not paused, or that is paused
\* and for which no set was made on its container since its pause(), calls
\* no callback and leaves the old value the observer remembers as it was.
C37_ResumeWithoutBufferCallsNothing ==
  [][(op'.name = "obresume"
      /\ (~st.is_paused[op'.ob]
          \/ (~gh.obSets[op'.ob] /\ Same(st.last_value[op'.ob], Undef))))
     => /\ st'.log = <<>>
        /\ st'.old_value[op'.ob] = st.old_value[op'.ob]]_vars

\* The callbacks resume() runs on c when a notification is pending: one call
\* of every observer in the list of c, in order, with the value of c.
NotifiedOnce(s, c, log) ==
  /\ Len(log) = Len(s.observers[c])
  /\ \A i \in 1..Len(log) :
       log[i].ob = s.observers[c][i] /\ Same(log[i].new, s.value[c])

C36_DeltaChain ==
  \A ob \in ChainObs :
    \A i \in 1..Len(CallsOf(ob)) :
      Same(CallsOf(ob)[i].old,
           IF i = 1 THEN cst.before[ob] ELSE CallsOf(ob)[i - 1].new)

\* E.set(0) called er, whose callback set E to 1: er was called with (0, 1)
\* and then with (1, 0), and e1, added after er, twice with 1.
C36_Witness ==
  /\ op.name = "set"
  /\ Len(CallsOf("er")) = 2
  /\ Same(CallsOf("er")[1].old, Num(1))
  /\ Same(CallsOf("er")[2].old, Num(0))
  /\ Len(CallsOf("e1")) = 2
  /\ Same(CallsOf("e1")[2].old, Num(1))

\* C32: a.and(b), a.or(b), o.and(a, b) and o.or(a, b) return, without
\* exhausting the call stack, a container (not one of the operands) that
\* holds the conjunction / disjunction of the truthiness of the operands.
C32_AndOrReturnCombinedContainer ==
  (cst.last \in {"and", "or", "o.and", "o.or"} /\ Len(cst.args) = 2)
  => /\ ~cst.overflow
     /\ cst.result \in 1..Len(cst.heap)
     /\ LgGet(cst, cst.result)
          <=> IF cst.last \in {"and", "o.and"}
              THEN Truthy(cst.value[cst.args[1]])
                   /\ Truthy(cst.value[cst.args[2]])
              ELSE Truthy(cst.value[cst.args[1]])
                   \/ Truthy(cst.value[cst.args[2]])

\* The calls of the callback of ob during the last operation on P.
PsCallsOf(ob) == SelectSeq(cst.calls, LAMBDA e : e.ob = ob)

\* ob is in the observer list of P.
PsObserves(ob) == \E i \in 1..Len(cst.observers) : cst.observers[i] = ob

\* C33: where pause() stops the observers and resume() starts them: the
\* resume() of a paused P returns, every observer started before the
\* pause() (and not stopped by the calling code) is in the observer list
\* again and, if the value changed during the pause, was called once with
\* the latest value; and a set of a new value on the unpaused P calls every
\* observer that the calling code started and did not stop.
C33_ResumeRestoresObservers ==
  /\ (cst.last = "resume" /\ cst.paused)
       => /\ ~cst.hang
          /\ \A ob \in cst.atPause :
               /\ PsObserves(ob)
               /\ ~Same(cst.value, cst.atPauseValue)
                    => /\ Len(PsCallsOf(ob)) = 1
                       /\ Same(PsCallsOf(ob)[1].new, cst.value)
  /\ (cst.last = "set" /\ cst.paused_notify = -1
      /\ ~Same(cst.value, cst.before))
       => \A ob \in cst.reg :
            /\ Len(PsCallsOf(ob)) = 1
            /\ Same(PsCallsOf(ob)[1].new, cst.value)

\* C34: between the operations of the calling code change_by_parent is
\* false, and GY.set(w) calls fnset once and leaves in the source GX the
\* value fnset writes for w (w - 1), whatever sets of GX came before and
\* whether or not GY is observed.
C34_GuardFalseBetweenUpdates ==
  /\ ~cst.change_by_parent
  /\ (cst.last = "set")
       => /\ cst.fnsets = 1
          /\ Same(cst.value["GX"], Num(cst.arg.n - 1))

\* C38: when the callback of ex removes e1 during a notification of E, the
\* callback of e1 is not called later in that notification, and it is not
\* called by a later operation unless the calling code has added e1 again.
C38_RemovedDuringNotifyNotCalled ==
  /\ \A i, j \in 1..Len(st.log) :
       (i < j /\ st.log[i].ob \in Removers)
       => st.log[j].ob # Victim(st.log[i].ob)
  /\ \A i \in 1..Len(st.log) :
       st.log[i].ob = "e1" => "e1" \in cst.before

\* C35: for D1 = S.tf(f) without observers, a D1.get() that directly
\* follows another D1.get() does not call f (the variables of memoize stay
\* as they are) and returns the same value as the one before.
C35_RepeatedGetCallsFnOnce ==
  [][(op.name = "get" /\ op.c = "D1" /\ op'.name = "get" /\ op'.c = "D1"
      /\ Len(st.observers["D1"]) = 0)
     => /\ st'.memo["gD1"] = st.memo["gD1"]
        /\ Same(op'.v, op.v)]_vars

\* C31: for RO = MB.readonly(): RO.get() === MB.get() after any sets of MB,
\* whether or not RO has observers, and an MB.set(v) that changes the value
\* calls every observer of RO exactly once, with v.
C31_ReadonlyFollowsSource ==
  /\ (op.name = "get" /\ op.c = "RO") => Same(op.v, st.value["MB"])
  /\ (op.name = "set" /\ op.c = "MB" /\ ~Same(op.v, pre.value["MB"]))
       => \A ob \in Registered("RO") :
            /\ Len(CallsOf(ob)) = 1
            /\ Same(CallsOf(ob)[1].new, op.v)

\* The functions the calling code has registered on c and not unregistered.
RegisteredOn(c) == {k \in cst.registered : cst.handles[k].c = c}

\* C8: After the closure returned by c.addObserver(fn, options) is called,
\* whatever the options, fn is no longer an observer of c, a later change
\* calls only the functions still registered, the observer count of c is
\* the number of observers still registered, and T keeps its own observer
\* on U only while it has observers.
C8_UnregisterRemovesObserver ==
  /\ \A k \in 1..MaxRegs : \A c \in ChgContainers :
       k \notin cst.registered =>
         \A i \in 1..Len(cst.observers[c]) : cst.observers[c][i] # Plain(k)
  /\ cst.last = "set" =>
       \A i \in 1..Len(cst.calls) : cst.calls[i].k \in cst.registered
  /\ cst.observers_count["T"] = Cardinality(RegisteredOn("T"))
  /\ cst.observers_count["U"] = Cardinality(RegisteredOn("U"))
       + (IF RegisteredOn("T") # {} THEN 1 ELSE 0)
  /\ RegisteredOn("T") = {} =>
       \A i \in 1..Len(cst.observers["U"]) : cst.observers["U"][i] # Internal

====
